---------------------------- MODULE Spec2Model ----------------------------
(***************************************************************************)
(* A model of the document-to-graph pipeline of ressearch-kg:              *)
(*   src/lib/actions/graph-processor.ts  chunkText, extractFromChunk,      *)
(*       mergeEntitiesWithLLM, consolidateGraph, processDocumentsToGraph   *)
(*   src/lib/actions/actions.ts          processDocumentsStreamAction,     *)
(*       processDocumentsToGraphWithProgress                               *)
(*                                                                         *)
(* Strings are TLA+ strings; a JS array is a sequence; a JS Map<string,    *)
(* string> is a function whose domain is its key set; a JS Map whose       *)
(* iteration order is observable (nodeMap, entitiesByType) is a sequence   *)
(* in insertion order.  The language-model oracle and the PDF text         *)
(* extractor are the environment: each call returns any answer of its      *)
(* schema, or fails.                                                       *)
(*                                                                         *)
(* consolidateGraph and mergeEntitiesWithLLM never read a node's or a      *)
(* relationship's properties, they only copy them.  The inputs enumerated  *)
(* below therefore tag every raw node / relationship with a description    *)
(* that names its position in the input: any other choice of properties    *)
(* is a renaming of these tags.                                            *)
(***************************************************************************)
EXTENDS Integers, Sequences, FiniteSets, TLC

VARIABLES
    pc,                \* position of the running function
    documentTexts,     \* processDocumentsToGraph parameter, actions.ts:180
    documentNames,     \* processDocumentsToGraph parameter, actions.ts:181
    documentNodes,     \* graph-processor.ts:272
    allChunks,         \* graph-processor.ts:285
    processedChunks,   \* graph-processor.ts:287
    docIndex,          \* graph-processor.ts:290
    chunkIndex,        \* graph-processor.ts:306
    allNodes,          \* graph-processor.ts:268 / consolidateGraph parameter
    allRelationships,  \* graph-processor.ts:269 / consolidateGraph parameter
    nonDocumentNodes,  \* graph-processor.ts:370, mergeEntitiesWithLLM's allNodes
    entitiesByType,    \* graph-processor.ts:130
    entityTypes,       \* graph-processor.ts:140
    typeIndex,         \* graph-processor.ts:143
    entityMapping,     \* graph-processor.ts:139, 371
    oracleCalls,       \* history: the oracle calls made so far; a merge call
                       \* with its answer
    finalGraph,        \* the GraphData a function returned, or NoGraph
    fileEntries,       \* actions.ts:163, the names of the uploaded files
    fileIndex,         \* actions.ts:183, the loop variable i
    events,            \* the events controller.enqueue has accepted, in order
    closed,            \* controller.close() has been called
    cancelled,         \* the client has cancelled the response stream
    callbackGiven,     \* processDocumentsToGraph was handed a progressCallback
    progressReports,   \* the progress values the callback was called with
    extractionLogged,  \* extractFromChunk has logged a failure (lines 95, 115)
    inFlight,          \* oracle calls issued and not yet settled
    textArg,           \* chunkText parameter text, graph-processor.ts:36
    maxCharsArg,       \* chunkText parameter maxChars
    chunksReturned,    \* what chunkText returned, line 58
    result,            \* the ProcessingResult processDocumentsAction returned
    selectedEntities,      \* the entity types selected (page) or decoded (route)
    selectedRelationships, \* the relationship types, likewise
    entitiesHeader,        \* request header X-Selected-Entities-B64
    relationshipsHeader,   \* request header X-Selected-Relationships-B64
    response,              \* the HTTP status of the route's Response, 0 before
    uiError,               \* the page's error message, "" when none
    client                 \* who sends the request: the page or another client

\* the state of processDocumentsToGraph's loop over documents and chunks
pdgVars == <<documentTexts, documentNames, documentNodes, allChunks,
             processedChunks, docIndex, chunkIndex>>

\* the state of mergeEntitiesWithLLM
mergeVars == <<nonDocumentNodes, entitiesByType, entityTypes, typeIndex>>

\* the state of processDocumentsStreamAction and of its stream
streamVars == <<fileEntries, fileIndex, events, closed, cancelled>>

\* the state of the page's handler and of the route
requestVars == <<selectedEntities, selectedRelationships, entitiesHeader,
                 relationshipsHeader, response, uiError, client>>

\* the progress callback of processDocumentsToGraph and what it received
reportVars == <<callbackGiven, progressReports>>

\* one call of chunkText
chunkVars == <<textArg, maxCharsArg, chunksReturned>>

vars == <<pc, pdgVars, allNodes, allRelationships, mergeVars, entityMapping,
          oracleCalls, finalGraph, streamVars, reportVars, extractionLogged,
          inFlight, chunkVars,
          result, requestVars>>

-----------------------------------------------------------------------------
(* Bounds of the enumerated inputs *)

\* longest raw node list handed to consolidateGraph
MaxNodes == 2
\* longest raw relationship list handed to consolidateGraph
MaxRels == 2
\* most entries of a mapping handed to consolidateGraph
MaxMapEntries == 1

\* entity names
Names == {"a", "b", "c"}
\* entity types the oracle answers with
Types == {"T", "U"}
\* relationship types the oracle answers with
RelTypes == {"R", "S"}

NoGraph == [nodes |-> <<>>, relationships |-> <<>>, none |-> TRUE]

\* all sequences over S of length at most n
SeqsUpTo(S, n) == UNION {[1..k -> S] : k \in 0..n}

-----------------------------------------------------------------------------
(* JS values *)

\* new Map()
EmptyMap == <<>>

\* Map.prototype.has
MapHas(m, k) == k \in DOMAIN m

\* Map.prototype.set
MapSet(m, k, v) == [x \in (DOMAIN m) \cup {k} |-> IF x = k THEN v ELSE m[x]]

\* entityMapping.get(id) || id : an absent key gives undefined, and undefined
\* and the empty string are both falsy
GetOrSelf(m, id) == IF MapHas(m, id) /\ m[id] # "" THEN m[id] ELSE id

\* the ids of a node list
Ids(nodes) == {nodes[i].id : i \in DOMAIN nodes}

-----------------------------------------------------------------------------
(* chunkText, graph-processor.ts:36-59 *)

\* the characters of the class [.!?]
Terminators == {".", "!", "?"}

\* the white space String.prototype.trim removes
WhiteSpace == {" ", "\n", "\t"}

\* text.charAt(i - 1)
CharAt(text, i) == SubSeq(text, i, i)

\* the least element of a non-empty set of integers
MinOf(S) == CHOOSE x \in S : \A y \in S : x <= y

RECURSIVE TrimStart(_)
TrimStart(str) ==
    IF str # "" /\ CharAt(str, 1) \in WhiteSpace
    THEN TrimStart(SubSeq(str, 2, Len(str)))
    ELSE str

RECURSIVE TrimEnd(_)
TrimEnd(str) ==
    IF str # "" /\ CharAt(str, Len(str)) \in WhiteSpace
    THEN TrimEnd(SubSeq(str, 1, Len(str) - 1))
    ELSE str

\* String.prototype.trim
Trim(str) == TrimEnd(TrimStart(str))

RECURSIVE RunEnd(_, _)
\* the first position after the run of terminators that starts at position i
RunEnd(terminatorAt, i) ==
    IF i \in terminatorAt THEN RunEnd(terminatorAt, i + 1) ELSE i

RECURSIVE PiecesFrom(_, _, _)
\* the pieces of text from position start on; terminatorAt is the set of
\* positions holding a terminator
PiecesFrom(text, terminatorAt, start) ==
    LET later == {i \in terminatorAt : i >= start}
    IN  IF later = {} THEN <<SubSeq(text, start, Len(text))>>
        ELSE LET first == MinOf(later)
                 \* the separator is the whole run of terminators
                 after == RunEnd(terminatorAt, first)
             IN  <<SubSeq(text, start, first - 1)>>
                 \o PiecesFrom(text, terminatorAt, after)

\* text.split(/[.!?]+/)
SplitSentences(text) ==
    PiecesFrom(text, {i \in 1..Len(text) : CharAt(text, i) \in Terminators}, 1)

\* a test that also closes an empty buffer
ClosesChunkOnEmptyBuffer(currentChunk, trimmedSentence, maxChars) ==
    Len(currentChunk) + Len(trimmedSentence) + 2 > maxChars

ClosesChunkIgnoringSeparator(currentChunk, trimmedSentence, maxChars) ==
    Len(currentChunk) + Len(trimmedSentence) > maxChars /\ Len(currentChunk) > 0

\* currentChunk.length + trimmedSentence.length + 2 > maxChars
\*   && currentChunk.length > 0
ClosesChunk(currentChunk, trimmedSentence, maxChars) ==
    Len(currentChunk) + Len(trimmedSentence) + 2 > maxChars /\ Len(currentChunk) > 0

\* a flush that loses the sentence that caused it
restartedEmpty(trimmedSentence) == ""

\* line 48: currentChunk = trimmedSentence + ". "
restarted(trimmedSentence) == trimmedSentence \o ". "

RECURSIVE SentencePass(_, _, _, _)
\* the loop of lines 42-52
SentencePass(sentences, maxChars, chunks, currentChunk) ==
    IF sentences = <<>>
    THEN \* lines 54-56
         IF Trim(currentChunk) # "" THEN Append(chunks, Trim(currentChunk))
         ELSE chunks
    ELSE LET trimmedSentence == Trim(Head(sentences))
         IN  IF trimmedSentence = ""
             THEN SentencePass(Tail(sentences), maxChars, chunks, currentChunk)
             ELSE IF ClosesChunk(currentChunk, trimmedSentence, maxChars)
             THEN SentencePass(Tail(sentences), maxChars,
                               Append(chunks, Trim(currentChunk)),
                               restarted(trimmedSentence))
             ELSE SentencePass(Tail(sentences), maxChars, chunks,
                               currentChunk \o trimmedSentence \o ". ")

\* a chunkText without the fallback of line 58
chunkTextNoFallback(text, maxChars) ==
    SentencePass(SplitSentences(text), maxChars, <<>>, "")

\* lines 38-58
chunkText(text, maxChars) ==
    LET chunks == SentencePass(SplitSentences(text), maxChars, <<>>, "")
    IN  IF Len(chunks) > 0 THEN chunks ELSE <<text>>

-----------------------------------------------------------------------------
(* consolidateGraph, graph-processor.ts:206-253 *)

\* nodeMap.has(canonicalId): nodeMap is the sequence of its values in
\* insertion order, each stored under its own id
NodeMapHas(nodeMap, canonicalId) == canonicalId \in Ids(nodeMap)

NodeWithIdKeepsRawId(node, canonicalId) == node

\* a node built from the id and the type alone, without ...node
NodeWithIdBare(node, canonicalId) ==
    [id |-> canonicalId, type |-> node.type,
     properties |-> [description |-> ""]]

\* { ...node, id: canonicalId }
NodeWithId(node, canonicalId) == [node EXCEPT !.id = canonicalId]

RECURSIVE NodePass(_, _, _)
\* the loop over allNodes: first-seen node per canonical id
NodePass(nodes, mapping, nodeMap) ==
    IF nodes = <<>> THEN nodeMap
    ELSE LET node == Head(nodes)
             canonicalId == GetOrSelf(mapping, node.id)
         IN  NodePass(Tail(nodes), mapping,
                 IF NodeMapHas(nodeMap, canonicalId) THEN nodeMap
                 ELSE Append(nodeMap, NodeWithId(node, canonicalId)))

IsSelfRelationshipNever(canonicalSource, canonicalTarget) == FALSE

\* if (canonicalSource === canonicalTarget) continue
IsSelfRelationship(canonicalSource, canonicalTarget) ==
    canonicalSource = canonicalTarget

EndpointsExistSourceOnly(nodeMap, canonicalSource, canonicalTarget) ==
    NodeMapHas(nodeMap, canonicalSource)

\* the negation of: !nodeMap.has(canonicalSource) || !nodeMap.has(canonicalTarget)
EndpointsExist(nodeMap, canonicalSource, canonicalTarget) ==
    NodeMapHas(nodeMap, canonicalSource) /\ NodeMapHas(nodeMap, canonicalTarget)

\* `${canonicalSource}|${rel.type}|${canonicalTarget}`
relationshipKey(canonicalSource, type, canonicalTarget) ==
    canonicalSource \o "|" \o type \o "|" \o canonicalTarget

RelationshipSeenNever(relationshipSet, key) == FALSE

\* relationshipSet.has(relationshipKey)
RelationshipSeen(relationshipSet, key) == key \in relationshipSet

RECURSIVE RelPass(_, _, _, _, _)
\* the loop over allRelationships
RelPass(rels, mapping, nodeMap, relationshipSet, finalRelationships) ==
    IF rels = <<>> THEN finalRelationships
    ELSE LET rel == Head(rels)
             canonicalSource == GetOrSelf(mapping, rel.source)
             canonicalTarget == GetOrSelf(mapping, rel.target)
             key == relationshipKey(canonicalSource, rel.type, canonicalTarget)
         IN  IF IsSelfRelationship(canonicalSource, canonicalTarget)
             THEN RelPass(Tail(rels), mapping, nodeMap, relationshipSet,
                          finalRelationships)
             ELSE IF ~EndpointsExist(nodeMap, canonicalSource, canonicalTarget)
             THEN RelPass(Tail(rels), mapping, nodeMap, relationshipSet,
                          finalRelationships)
             ELSE IF RelationshipSeen(relationshipSet, key)
             THEN RelPass(Tail(rels), mapping, nodeMap, relationshipSet,
                          finalRelationships)
             ELSE RelPass(Tail(rels), mapping, nodeMap,
                          relationshipSet \cup {key},
                          Append(finalRelationships,
                                 [rel EXCEPT !.source = canonicalSource,
                                             !.target = canonicalTarget]))

consolidateGraph(nodes, rels, mapping) ==
    LET nodeMap == NodePass(nodes, mapping, <<>>)
    IN  [nodes |-> nodeMap,
         relationships |-> RelPass(rels, mapping, nodeMap, {}, <<>>)]

-----------------------------------------------------------------------------
(* consolidateGraph called on enumerated inputs *)

\* raw nodes: any id and type, the description names the input position
RawNodeLists ==
    {[i \in DOMAIN s |->
        [id |-> s[i][1], type |-> s[i][2],
         properties |-> [description |-> "n" \o ToString(i)]]] :
     s \in SeqsUpTo(Names \X Types, MaxNodes)}

\* raw relationships: any endpoints and type
RawRelLists ==
    {[i \in DOMAIN s |->
        [source |-> s[i][1], target |-> s[i][3], type |-> s[i][2],
         properties |-> [description |-> "r" \o ToString(i)]]] :
     s \in SeqsUpTo(Names \X RelTypes \X Names, MaxRels)}

\* mappings: any keys, any values (the empty string included)
Mappings ==
    UNION {[K -> Names \cup {""}] :
           K \in {S \in SUBSET Names : Cardinality(S) <= MaxMapEntries}}

\* the variables a specification does not use keep these values
IdlePdg ==
    /\ documentTexts = <<>>
    /\ documentNames = <<>>
    /\ documentNodes = <<>>
    /\ allChunks = <<>>
    /\ processedChunks = 0
    /\ docIndex = 0
    /\ chunkIndex = 0

IdleMerge ==
    /\ nonDocumentNodes = <<>>
    /\ entitiesByType = EmptyMap
    /\ entityTypes = <<>>
    /\ typeIndex = 0

IdleChunk ==
    /\ textArg = ""
    /\ maxCharsArg = 0
    /\ chunksReturned = <<>>

IdleReports ==
    /\ callbackGiven = FALSE
    /\ progressReports = <<>>
    /\ extractionLogged = FALSE
    /\ inFlight = 0

\* request.headers.get(name) when the request has no such header
NoHeader == [present |-> FALSE]

Header(value) == [present |-> TRUE, value |-> value]

IdleRequest ==
    /\ selectedEntities = <<>>
    /\ selectedRelationships = <<>>
    /\ entitiesHeader = NoHeader
    /\ relationshipsHeader = NoHeader
    /\ response = 0
    /\ uiError = ""
    /\ client = "none"

\* no ProcessingResult
NoResult == [none |-> TRUE]

IdleStream ==
    /\ fileEntries = <<>>
    /\ fileIndex = 0
    /\ events = <<>>
    /\ closed = FALSE
    /\ cancelled = FALSE
    /\ result = NoResult
    /\ IdleRequest
    /\ IdleChunk

InitConsolidate ==
    /\ pc = "consolidate"
    /\ allNodes \in RawNodeLists
    /\ allRelationships \in RawRelLists
    /\ entityMapping \in Mappings
    /\ finalGraph = NoGraph
    /\ oracleCalls = <<>>
    /\ IdlePdg
    /\ IdleMerge
    /\ IdleStream
    /\ IdleReports

\* one call consolidateGraph(allNodes, allRelationships, entityMapping)
Consolidate ==
    /\ pc = "consolidate"
    /\ finalGraph' = consolidateGraph(allNodes, allRelationships, entityMapping)
    /\ pc' = "consolidated"
    /\ UNCHANGED <<allNodes, allRelationships, entityMapping, pdgVars, mergeVars,
                   oracleCalls>>
    /\ UNCHANGED <<streamVars, chunkVars, result, requestVars, reportVars, extractionLogged,
                   inFlight>>

\* a second call, on the first call's output with an empty mapping
Reconsolidate ==
    /\ pc = "consolidated"
    /\ finalGraph' = consolidateGraph(finalGraph.nodes, finalGraph.relationships,
                                      EmptyMap)
    /\ allNodes' = finalGraph.nodes
    /\ allRelationships' = finalGraph.relationships
    /\ entityMapping' = EmptyMap
    /\ pc' = "reconsolidated"
    /\ UNCHANGED <<pdgVars, mergeVars, oracleCalls>>
    /\ UNCHANGED <<streamVars, chunkVars, result, requestVars, reportVars, extractionLogged,
                   inFlight>>

NextConsolidate == Consolidate \/ Reconsolidate

SpecConsolidate == InitConsolidate /\ [][NextConsolidate]_vars

ConsolidateReturned == pc \in {"consolidated", "reconsolidated"}

-----------------------------------------------------------------------------
(* Claims about consolidateGraph *)

\* C4: every relationship in the output of consolidateGraph has
\* source # target.
C4_NoSelfLoops ==
    ConsolidateReturned =>
        \A i \in DOMAIN finalGraph.relationships :
            finalGraph.relationships[i].source # finalGraph.relationships[i].target

\* C4 witness: the mapping turned an input relationship into a self-loop and
\* the call returned.
C4_Witness ==
    /\ pc = "consolidated"
    /\ \E i \in DOMAIN allRelationships :
          /\ allRelationships[i].source # allRelationships[i].target
          /\ GetOrSelf(entityMapping, allRelationships[i].source)
               = GetOrSelf(entityMapping, allRelationships[i].target)
          /\ GetOrSelf(entityMapping, allRelationships[i].source)
               \in Ids(finalGraph.nodes)

\* C5: every relationship in the output of consolidateGraph has both its
\* source and its target among the ids of the output nodes.
C5_NoDanglingEdges ==
    ConsolidateReturned =>
        \A i \in DOMAIN finalGraph.relationships :
            /\ finalGraph.relationships[i].source \in Ids(finalGraph.nodes)
            /\ finalGraph.relationships[i].target \in Ids(finalGraph.nodes)

\* C5 witness: an input relationship whose target is no node id, raw or
\* canonical, was dropped while another relationship was kept.
C5_Witness ==
    /\ pc = "consolidated"
    /\ Len(finalGraph.relationships) = 1
    /\ \E i \in DOMAIN allRelationships :
          /\ allRelationships[i].target \notin Ids(allNodes)
          /\ GetOrSelf(entityMapping, allRelationships[i].target)
               \notin Ids(finalGraph.nodes)
          /\ allRelationships[i].source \in Ids(finalGraph.nodes)
          /\ GetOrSelf(entityMapping, allRelationships[i].source)
               = allRelationships[i].source

\* C6: no two relationships in the output of consolidateGraph have the same
\* (source, type, target) triple.
C6_EdgeUniqueness ==
    ConsolidateReturned =>
        \A i, j \in DOMAIN finalGraph.relationships :
            (/\ finalGraph.relationships[i].source = finalGraph.relationships[j].source
             /\ finalGraph.relationships[i].type = finalGraph.relationships[j].type
             /\ finalGraph.relationships[i].target = finalGraph.relationships[j].target)
            => i = j

\* C6 witness: two input relationships with different raw sources resolve to
\* one triple, and exactly one of them is in the output.
C6_Witness ==
    /\ pc = "consolidated"
    /\ Len(allRelationships) = 2
    /\ allRelationships[1].source # allRelationships[2].source
    /\ allRelationships[1].type = allRelationships[2].type
    /\ GetOrSelf(entityMapping, allRelationships[1].source)
         = GetOrSelf(entityMapping, allRelationships[2].source)
    /\ allRelationships[1].target = allRelationships[2].target
    /\ Len(finalGraph.relationships) = 1

\* C9: consolidateGraph applied to its own output with an empty mapping
\* returns that output: same nodes, same relationships, same order.
\* (After Reconsolidate, allNodes and allRelationships hold the first call's
\* output.)
C9_Idempotent ==
    pc = "reconsolidated" =>
        /\ finalGraph.nodes = allNodes
        /\ finalGraph.relationships = allRelationships

\* C9 witness: the first call merged two nodes and kept a relationship, and
\* the second call has returned.
C9_Witness ==
    /\ pc = "reconsolidated"
    /\ Len(finalGraph.nodes) = 2
    /\ Len(finalGraph.relationships) = 1

-----------------------------------------------------------------------------
(* mergeEntitiesWithLLM, graph-processor.ts:121-203 *)

\* longest node list handed to mergeEntitiesWithLLM on its own
MaxMergeNodes == 4
\* most clusters in one answer of the merge oracle
MaxClusters == 1
\* most variations in one cluster
MaxVariations == 2

RECURSIVE GroupPass(_, _, _)
\* the loop of lines 132-137: byType is entitiesByType, order its keys in
\* insertion order
GroupPass(nodes, byType, order) ==
    IF nodes = <<>> THEN [byType |-> byType, order |-> order]
    ELSE LET node == Head(nodes)
         IN  IF MapHas(byType, node.type)
             THEN GroupPass(Tail(nodes),
                            MapSet(byType, node.type,
                                   Append(byType[node.type], node.id)),
                            order)
             ELSE GroupPass(Tail(nodes),
                            MapSet(byType, node.type, <<node.id>>),
                            Append(order, node.type))

RECURSIVE UniqueFrom(_, _)
UniqueFrom(entities, seen) ==
    IF entities = <<>> THEN <<>>
    ELSE IF Head(entities) \in seen THEN UniqueFrom(Tail(entities), seen)
    ELSE <<Head(entities)>> \o UniqueFrom(Tail(entities), seen \cup {Head(entities)})

\* [...new Set(entities)]: each name once, in first-occurrence order
uniqueEntities(entities) == UniqueFrom(entities, {})

NeedsMergeCallAlways(unique) == TRUE

\* the negation of: if (uniqueEntities.length <= 1) continue
NeedsMergeCall(unique) == Len(unique) > 1

KeepsVariationAlways(variation, canonicalName) == TRUE

\* if (variation !== merged.canonicalName)
KeepsVariation(variation, canonicalName) == variation # canonicalName

RECURSIVE VariationPass(_, _, _)
\* the loop of lines 185-189 over one cluster's variations
VariationPass(variations, canonicalName, mapping) ==
    IF variations = <<>> THEN mapping
    ELSE VariationPass(Tail(variations), canonicalName,
             IF KeepsVariation(Head(variations), canonicalName)
             THEN MapSet(mapping, Head(variations), canonicalName)
             ELSE mapping)

RECURSIVE ClusterPass(_, _)
\* the loop of lines 184-190 over merging.mergedEntities
ClusterPass(mergedEntities, mapping) ==
    IF mergedEntities = <<>> THEN mapping
    ELSE ClusterPass(Tail(mergedEntities),
             VariationPass(Head(mergedEntities).variations,
                           Head(mergedEntities).canonicalName, mapping))

\* one cluster of the EntityMerging schema (its type field is never read)
Clusters ==
    [canonicalName : Names, variations : SeqsUpTo(Names, MaxVariations)]

\* what openai.chat.completions.parse can do for a merge call: throw, give
\* no parsed message, or give any list of clusters
MergeAnswers ==
    {[kind |-> "throws"], [kind |-> "unparsed"]}
    \cup {[kind |-> "parsed", mergedEntities |-> m] :
          m \in SeqsUpTo(Clusters, MaxClusters)}

-----------------------------------------------------------------------------
(* The progress values.  The code computes them in floating point; here a  *)
(* value is the exact fraction <<numerator, denominator>>.                 *)

Whole(n) == <<n, 1>>

\* a <= b
FracLeq(a, b) == a[1] * b[2] <= b[1] * a[2]

\* progressCallback?.(value, ...): nothing happens without a callback
Report(reports, value) ==
    IF callbackGiven THEN Append(reports, value) ELSE reports

RECURSIVE totalChunks(_)
\* graph-processor.ts:286
totalChunks(chunkLists) ==
    IF chunkLists = <<>> THEN 0
    ELSE Len(Head(chunkLists)) + totalChunks(Tail(chunkLists))

\* lines 300 and 310: (processedChunks / totalChunks) * 70
chunkProgress(processed, total) == <<70 * processed, total>>

\* line 148: (typeIndex / entityTypes.length) * 100
mergeProgress(index, count) == <<100 * index, count>>

\* the merge progress passed on without the offset of 75
mergeScaledNoOffset(progress) == <<15 * progress[1], 100 * progress[2]>>

\* line 377: 75 + (progress * 0.15)
mergeScaled(progress) == <<7500 * progress[2] + 15 * progress[1], 100 * progress[2]>>

\* lines 125-140
MergeEntry ==
    /\ pc = "merge_entry"
    /\ entityMapping' = EmptyMap
    /\ IF Len(nonDocumentNodes) <= 1
       THEN /\ pc' = "merge_return"
            /\ UNCHANGED <<entitiesByType, entityTypes, typeIndex,
                           progressReports>>
       ELSE LET g == GroupPass(nonDocumentNodes, EmptyMap, <<>>)
            IN  /\ entitiesByType' = g.byType
                /\ entityTypes' = g.order
                /\ typeIndex' = 0
                /\ progressReports' =
                       Report(progressReports, mergeScaled(Whole(0)))
                /\ pc' = "merge_loop"
    /\ UNCHANGED <<pdgVars, allNodes, allRelationships, nonDocumentNodes,
                   oracleCalls, finalGraph>>
    /\ UNCHANGED <<streamVars, chunkVars, result, requestVars, callbackGiven, extractionLogged,
                   inFlight>>

\* openai.chat.completions.parse is called (lines 68, 156)
issued(calls) == calls + 1

\* a loop that goes on without awaiting the call it issued
settledWithoutAwait(calls) == calls

\* the await of the call returns or throws (lines 68-117, 156-198)
settled(calls) == calls - 1

\* lines 151-156: a group of one name is skipped, any other awaits the oracle
MergeLoopBody ==
    IF NeedsMergeCall(uniqueEntities(entitiesByType[entityTypes[typeIndex + 1]]))
    THEN /\ pc' = "merge_await"
         /\ inFlight' = issued(inFlight)
         /\ UNCHANGED typeIndex
    ELSE /\ pc' = "merge_loop"
         /\ typeIndex' = typeIndex + 1
         /\ UNCHANGED inFlight

\* lines 143-156 and 201-202: the head of one iteration, up to the oracle call
MergeLoop ==
    /\ pc = "merge_loop"
    /\ IF typeIndex >= Len(entityTypes)
       THEN /\ progressReports' =
                   Report(progressReports, mergeScaled(Whole(100)))
            /\ pc' = "merge_return"
            /\ UNCHANGED <<typeIndex, inFlight>>
       ELSE /\ progressReports' =
                   Report(progressReports,
                          mergeScaled(mergeProgress(typeIndex, Len(entityTypes))))
            /\ MergeLoopBody
    /\ UNCHANGED <<pdgVars, allNodes, allRelationships, nonDocumentNodes,
                   entitiesByType, entityTypes, entityMapping, oracleCalls,
                   finalGraph>>
    /\ UNCHANGED <<streamVars, chunkVars, result, requestVars, callbackGiven, extractionLogged>>

\* a mapping that is lost when the answer holds no parsed message
mappingAfterResetting(answer, mapping) ==
    IF answer.kind = "parsed"
    THEN ClusterPass(answer.mergedEntities, mapping)
    ELSE EmptyMap

\* lines 181-191 and 196-198: the entries of a parsed answer are set; any
\* other answer leaves the mapping as it is
mappingAfter(answer, mapping) ==
    IF answer.kind = "parsed"
    THEN ClusterPass(answer.mergedEntities, mapping)
    ELSE mapping

\* lines 156-198: the oracle call returns or throws
MergeAnswer ==
    /\ pc = "merge_await"
    /\ \E answer \in MergeAnswers :
          /\ oracleCalls' = Append(oracleCalls,
                 [kind |-> "merge",
                  type |-> entityTypes[typeIndex + 1],
                  names |-> uniqueEntities(entitiesByType[entityTypes[typeIndex + 1]]),
                  answer |-> answer])
          /\ inFlight' = settled(inFlight)
          /\ IF answer.kind = "throws"
             THEN /\ typeIndex' = typeIndex + 1
                  /\ pc' = "merge_loop"
                  /\ UNCHANGED entityMapping
             ELSE /\ entityMapping' = mappingAfter(answer, entityMapping)
                  /\ pc' = "merge_delay"
                  /\ UNCHANGED typeIndex
    /\ UNCHANGED <<pdgVars, allNodes, allRelationships, nonDocumentNodes,
                   entitiesByType, entityTypes, finalGraph>>
    /\ UNCHANGED <<streamVars, chunkVars, result, requestVars, reportVars, extractionLogged>>

\* line 194: the 50 ms delay ends
MergeDelay ==
    /\ pc = "merge_delay"
    /\ typeIndex' = typeIndex + 1
    /\ pc' = "merge_loop"
    /\ UNCHANGED <<pdgVars, allNodes, allRelationships, nonDocumentNodes,
                   entitiesByType, entityTypes, entityMapping, oracleCalls,
                   finalGraph>>
    /\ UNCHANGED <<streamVars, chunkVars, result, requestVars, reportVars, extractionLogged,
                   inFlight>>

\* node lists handed to mergeEntitiesWithLLM
MergeInputs ==
    {[i \in DOMAIN s |->
        [id |-> s[i][1], type |-> s[i][2],
         properties |-> [description |-> "n" \o ToString(i)]]] :
     s \in SeqsUpTo(Names \X Types, MaxMergeNodes)}

InitMerge ==
    /\ pc = "merge_entry"
    /\ nonDocumentNodes \in MergeInputs
    /\ entitiesByType = EmptyMap
    /\ entityTypes = <<>>
    /\ typeIndex = 0
    /\ entityMapping = EmptyMap
    /\ allNodes = <<>>
    /\ allRelationships = <<>>
    /\ oracleCalls = <<>>
    /\ finalGraph = NoGraph
    /\ IdlePdg
    /\ IdleStream
    /\ IdleReports

NextMerge == MergeEntry \/ MergeLoop \/ MergeAnswer \/ MergeDelay

SpecMerge == InitMerge /\ [][NextMerge]_vars

\* the names of the input nodes of type t
NamesOfType(nodes, t) == {nodes[i].id : i \in {j \in DOMAIN nodes : nodes[j].type = t}}

\* the canonical names of the clusters the merge oracle has returned
CanonicalNamesReturned ==
    {oracleCalls[i].answer.mergedEntities[j].canonicalName :
       <<i, j>> \in {<<i2, j2>> \in (DOMAIN oracleCalls) \X (1..MaxClusters) :
                       /\ oracleCalls[i2].kind = "merge"
                       /\ oracleCalls[i2].answer.kind = "parsed"
                       /\ j2 \in DOMAIN oracleCalls[i2].answer.mergedEntities}}

-----------------------------------------------------------------------------
(* Claims about mergeEntitiesWithLLM *)

\* C7: in the mapping mergeEntitiesWithLLM returns, every entry
\* variant -> canonical has its variant and its canonical name among the names
\* of the input nodes of one and the same type, whatever the oracle returns.
C7_SameTypeEntries ==
    pc = "merge_return" =>
        \A variant \in DOMAIN entityMapping :
            \E t \in Types :
                /\ variant \in NamesOfType(nonDocumentNodes, t)
                /\ entityMapping[variant] \in NamesOfType(nonDocumentNodes, t)

\* C8: in the mapping mergeEntitiesWithLLM returns, no canonical name of a
\* cluster the oracle returned during the call is a key.
C8_CanonicalNeverKey ==
    pc = "merge_return" =>
        \A name \in CanonicalNamesReturned : ~MapHas(entityMapping, name)

-----------------------------------------------------------------------------
(* extractFromChunk and processDocumentsToGraph, graph-processor.ts:62-118, *)
(* 256-394 *)

\* most documents in one call
MaxDocs == 2
\* most entities in one answer of the extraction oracle
MaxExtract == 2
\* most entities the extraction oracle returns during one run
MaxEntities == 2
\* most relationships the extraction oracle returns during one run
MaxExtractRels == 1

\* chunkText(text, 8000)
ChunkMaxChars == 8000

RECURSIVE Repeat(_, _)
\* String.prototype.repeat
Repeat(str, n) ==
    IF n = 0 THEN ""
    ELSE IF n % 2 = 0 THEN LET half == Repeat(str, n \div 2) IN half \o half
    ELSE str \o Repeat(str, n - 1)

\* a text of two sentences that do not fit one chunk of ChunkMaxChars
TwoChunkText == Repeat("x", ChunkMaxChars - 4) \o ". y."

\* document texts: one without any sentence, one of two chunks
Texts == {"", TwoChunkText}

\* line 285: chunkText(text, 8000), tabulated once for the document texts
chunksOf == [text \in Texts |-> chunkText(text, ChunkMaxChars)]

\* document names: none (or empty), and one that is also an entity name
DocNames == {"", "a"}

\* document names and entity names that hold the separator of
\* relationshipKey (line 238)
SeparatorDocNames == <<"D", "D|CONTAINS|x">>
SeparatorExtractNames == {"x|CONTAINS|y", "y"}

\* the names and relationships the extraction oracle answers with: plain
\* names, or in a run on SeparatorDocNames names that hold the separator
ExtractNames ==
    IF documentNames = SeparatorDocNames THEN SeparatorExtractNames
    ELSE {"a", "b"}
ExtractRels == {"a"} \X {"R"} \X {"b", "c"}

\* documentNames?.[index] || `Document ${index + 1}`, for the 1-based index k
documentId(names, k) ==
    IF k \in DOMAIN names /\ names[k] # "" THEN names[k]
    ELSE "Document " \o ToString(k)

\* the document node of lines 272-279
documentNode(text, id) ==
    [id |-> id, type |-> "DOCUMENT",
     properties |->
        [description |-> "Source document with " \o ToString(Len(text))
                           \o " characters",
         length |-> Len(text)]]

UpperCase == <<"A", "B", "C", "D", "E", "F", "G", "H", "I", "J", "K", "L", "M",
               "N", "O", "P", "Q", "R", "S", "T", "U", "V", "W", "X", "Y", "Z">>
LowerCase == <<"a", "b", "c", "d", "e", "f", "g", "h", "i", "j", "k", "l", "m",
               "n", "o", "p", "q", "r", "s", "t", "u", "v", "w", "x", "y", "z">>

RECURSIVE toLowerCase(_)
\* String.prototype.toLowerCase on ASCII
toLowerCase(str) ==
    IF str = "" THEN ""
    ELSE LET c == CharAt(str, 1)
             at == {i \in DOMAIN UpperCase : UpperCase[i] = c}
         IN  (IF at = {} THEN c ELSE LowerCase[CHOOSE i \in at : TRUE])
             \o toLowerCase(SubSeq(str, 2, Len(str)))

\* the CONTAINS relationship of lines 333-338
containsRelationship(documentIdOfChunk, node) ==
    [source |-> documentIdOfChunk, target |-> node.id, type |-> "CONTAINS",
     properties |->
        [description |-> "Document contains this " \o toLowerCase(node.type)]]

MinNat(x, y) == IF x <= y THEN x ELSE y

\* what openai.chat.completions.parse can do for an extraction call: throw,
\* give no parsed message, or give entities and relationships of the
\* KnowledgeGraphExtraction schema.  The description of an entity or a
\* relationship names its position among those returned during the run.
ExtractAnswers ==
    LET \* the entities and the relationships the oracle has returned so far:
        \* every extracted node came with one CONTAINS relationship
        ne == Len(allNodes) - Len(documentNodes)
        nr == Len(allRelationships) - ne
    IN  {[kind |-> "throws"], [kind |-> "unparsed"]}
        \cup
        {[kind |-> "parsed",
          entities |->
             [i \in DOMAIN es |->
                [name |-> es[i][1], type |-> es[i][2],
                 description |-> "e" \o ToString(ne + i)]],
          relationships |->
             [i \in DOMAIN rs |->
                [source |-> rs[i][1], type |-> rs[i][2], target |-> rs[i][3],
                 description |-> "r" \o ToString(nr + i)]]] :
         es \in SeqsUpTo(ExtractNames \X Types,
                         MinNat(MaxExtract, MaxEntities - ne)),
         rs \in SeqsUpTo(ExtractRels, MaxExtractRels - nr)}

\* an extractFromChunk that answers a failed call with a placeholder entity
extractedNodesWithPlaceholder(answer) ==
    IF answer.kind # "parsed"
    THEN <<[id |-> "a", type |-> "T", properties |-> [description |-> "failed"]]>>
    ELSE [i \in DOMAIN answer.entities |->
            [id |-> answer.entities[i].name,
             type |-> answer.entities[i].type,
             properties |-> [description |-> answer.entities[i].description]]]

\* extractFromChunk, lines 93-117: the nodes of an answer
extractedNodes(answer) ==
    IF answer.kind # "parsed" THEN <<>>
    ELSE [i \in DOMAIN answer.entities |->
            [id |-> answer.entities[i].name,
             type |-> answer.entities[i].type,
             properties |-> [description |-> answer.entities[i].description]]]

\* extractFromChunk, lines 93-117: the relationships of an answer
extractedRelationships(answer) ==
    IF answer.kind # "parsed" THEN <<>>
    ELSE [i \in DOMAIN answer.relationships |->
            [source |-> answer.relationships[i].source,
             target |-> answer.relationships[i].target,
             type |-> answer.relationships[i].type,
             properties |->
                [description |-> answer.relationships[i].description]]]

\* node.type !== "DOCUMENT"
IsNotDocument(node) == node.type # "DOCUMENT"

RECURSIVE FilterNotDocument(_)
\* allNodes.filter(node => node.type !== "DOCUMENT")
FilterNotDocument(nodes) ==
    IF nodes = <<>> THEN <<>>
    ELSE (IF IsNotDocument(Head(nodes)) THEN <<Head(nodes)>> ELSE <<>>)
         \o FilterNotDocument(Tail(nodes))

ShortCircuitsNever(nodes, docNodes) == FALSE

\* if (allNodes.length <= documentNodes.length)
ShortCircuits(nodes, docNodes) == Len(nodes) <= Len(docNodes)

\* the arguments of one call processDocumentsToGraph(documentTexts, ...,
\* documentNames)
InitPdg ==
    /\ documentTexts \in SeqsUpTo(Texts, MaxDocs)
    /\ documentNames \in [DOMAIN documentTexts -> DocNames]
    /\ documentNodes = <<>>
    /\ allChunks = <<>>
    /\ processedChunks = 0
    /\ docIndex = 0
    /\ chunkIndex = 0
    /\ allNodes = <<>>
    /\ allRelationships = <<>>
    /\ entityMapping = EmptyMap
    /\ oracleCalls = <<>>
    /\ finalGraph = NoGraph
    /\ IdleMerge

\* lines 268-290: the document nodes, the chunks
PdgStart ==
    /\ pc = "pdg_entry"
    /\ documentNodes' =
          [k \in DOMAIN documentTexts |->
              documentNode(documentTexts[k], documentId(documentNames, k))]
    /\ allNodes' = documentNodes'
    /\ allRelationships' = <<>>
    /\ allChunks' = [k \in DOMAIN documentTexts |-> chunksOf[documentTexts[k]]]
    /\ processedChunks' = 0
    /\ docIndex' = 0
    /\ progressReports' = Report(progressReports, Whole(0))
    /\ pc' = "pdg_doc"
    /\ UNCHANGED <<documentTexts, documentNames, chunkIndex, mergeVars,
                   entityMapping, oracleCalls, finalGraph>>
    /\ UNCHANGED <<streamVars, chunkVars, result, requestVars, callbackGiven, extractionLogged,
                   inFlight>>

\* lines 290-306 (the head of the loop over documents) and, after the last
\* document, lines 356-370
PdgDoc ==
    /\ pc = "pdg_doc"
    /\ IF docIndex < Len(documentTexts)
       THEN /\ chunkIndex' = 0
            /\ progressReports' =
                   Report(progressReports,
                          chunkProgress(processedChunks, totalChunks(allChunks)))
            /\ pc' = "pdg_chunk"
            /\ UNCHANGED <<nonDocumentNodes, finalGraph>>
       ELSE IF ShortCircuits(allNodes, documentNodes)
       THEN /\ finalGraph' = [nodes |-> documentNodes, relationships |-> <<>>]
            /\ progressReports' =
                   Report(Report(progressReports, Whole(70)), Whole(100))
            /\ pc' = "pdg_return"
            /\ UNCHANGED <<nonDocumentNodes, chunkIndex>>
       ELSE /\ nonDocumentNodes' = FilterNotDocument(allNodes)
            /\ progressReports' =
                   Report(Report(progressReports, Whole(70)), Whole(75))
            /\ pc' = "merge_entry"
            /\ UNCHANGED <<finalGraph, chunkIndex>>
    /\ UNCHANGED <<documentTexts, documentNames, documentNodes, allChunks,
                   processedChunks, docIndex, allNodes, allRelationships,
                   entitiesByType, entityTypes, typeIndex, entityMapping,
                   oracleCalls>>
    /\ UNCHANGED <<streamVars, chunkVars, result, requestVars, callbackGiven, extractionLogged,
                   inFlight>>

\* lines 306-326 (the head of the loop over chunks, up to the oracle call of
\* extractFromChunk), and the end of the loop
PdgChunk ==
    /\ pc = "pdg_chunk"
    /\ IF chunkIndex < Len(allChunks[docIndex + 1])
       THEN /\ progressReports' =
                   Report(progressReports,
                          chunkProgress(processedChunks, totalChunks(allChunks)))
            /\ pc' = "extract_await"
            /\ inFlight' = issued(inFlight)
            /\ UNCHANGED docIndex
       ELSE /\ docIndex' = docIndex + 1
            /\ pc' = "pdg_doc"
            /\ UNCHANGED <<progressReports, inFlight>>
    /\ UNCHANGED <<documentTexts, documentNames, documentNodes, allChunks,
                   processedChunks, chunkIndex, allNodes, allRelationships,
                   mergeVars, entityMapping, oracleCalls, finalGraph>>
    /\ UNCHANGED <<streamVars, chunkVars, result, requestVars, callbackGiven, extractionLogged>>

\* lines 322-339: the accumulators after the nodes, the relationships and one
\* CONTAINS relationship per node of an answer have been appended
accumulated(answer) ==
    LET nodes == extractedNodes(answer)
        relationships == extractedRelationships(answer)
        id == documentId(documentNames, docIndex + 1)
    IN  [allNodes |-> allNodes \o nodes,
         allRelationships |->
            allRelationships \o relationships
            \o [i \in DOMAIN nodes |-> containsRelationship(id, nodes[i])]]

\* lines 68-117 and 328-346: the oracle call returns or throws; the nodes,
\* the relationships and one CONTAINS relationship per node are appended
ExtractAnswer ==
    /\ pc = "extract_await"
    /\ \E answer \in ExtractAnswers :
          /\ oracleCalls' = Append(oracleCalls,
                 [kind |-> "extract", document |-> docIndex + 1,
                  chunk |-> chunkIndex + 1])
          /\ extractionLogged' = (extractionLogged \/ answer.kind # "parsed")
          /\ inFlight' = settled(inFlight)
          /\ allNodes' = accumulated(answer).allNodes
          /\ allRelationships' = accumulated(answer).allRelationships
    /\ IF chunkIndex % 3 = 0
       THEN /\ pc' = "pdg_delay"
            /\ UNCHANGED <<processedChunks, chunkIndex>>
       ELSE /\ processedChunks' = processedChunks + 1
            /\ chunkIndex' = chunkIndex + 1
            /\ pc' = "pdg_chunk"
    /\ UNCHANGED <<documentTexts, documentNames, documentNodes, allChunks,
                   docIndex, mergeVars, entityMapping, finalGraph>>
    /\ UNCHANGED <<streamVars, chunkVars, result, requestVars, reportVars>>

\* lines 344-352: the 100 ms delay after every third chunk ends
PdgDelay ==
    /\ pc = "pdg_delay"
    /\ processedChunks' = processedChunks + 1
    /\ chunkIndex' = chunkIndex + 1
    /\ pc' = "pdg_chunk"
    /\ UNCHANGED <<documentTexts, documentNames, documentNodes, allChunks,
                   docIndex, allNodes, allRelationships, mergeVars,
                   entityMapping, oracleCalls, finalGraph>>
    /\ UNCHANGED <<streamVars, chunkVars, result, requestVars, reportVars, extractionLogged,
                   inFlight>>

\* lines 380-393: mergeEntitiesWithLLM has returned; consolidate and return
PdgConsolidate ==
    /\ pc = "merge_return"
    /\ finalGraph' = consolidateGraph(allNodes, allRelationships, entityMapping)
    /\ progressReports' =
           Report(Report(progressReports, Whole(90)), Whole(100))
    /\ pc' = "pdg_return"
    /\ UNCHANGED <<pdgVars, allNodes, allRelationships, mergeVars,
                   entityMapping, oracleCalls>>
    /\ UNCHANGED <<streamVars, chunkVars, result, requestVars, callbackGiven, extractionLogged,
                   inFlight>>

\* processDocumentsToGraph from its call to its return
NextPdg ==
    \/ PdgStart
    \/ PdgDoc
    \/ PdgChunk
    \/ ExtractAnswer
    \/ PdgDelay
    \/ MergeEntry
    \/ MergeLoop
    \/ MergeAnswer
    \/ MergeDelay
    \/ PdgConsolidate

\* a call of processDocumentsToGraph with a progress callback
Init ==
    /\ pc = "pdg_entry"
    /\ InitPdg
    /\ IdleStream
    /\ callbackGiven = TRUE
    /\ progressReports = <<>>
    /\ extractionLogged = FALSE
    /\ inFlight = 0

Next == NextPdg

Spec == Init /\ [][Next]_vars

\* a call of processDocumentsToGraph on two empty documents whose names hold
\* the separator
InitSeparator ==
    /\ pc = "pdg_entry"
    /\ documentTexts = <<"", "">>
    /\ documentNames = SeparatorDocNames
    /\ documentNodes = <<>>
    /\ allChunks = <<>>
    /\ processedChunks = 0
    /\ docIndex = 0
    /\ chunkIndex = 0
    /\ allNodes = <<>>
    /\ allRelationships = <<>>
    /\ entityMapping = EmptyMap
    /\ oracleCalls = <<>>
    /\ finalGraph = NoGraph
    /\ IdleMerge
    /\ IdleStream
    /\ callbackGiven = TRUE
    /\ progressReports = <<>>
    /\ extractionLogged = FALSE
    /\ inFlight = 0

SpecSeparator == InitSeparator /\ [][Next]_vars

\* the types of the groups whose merge call produced the mapping key name:
\* a parsed answer with a cluster that lists name as a variation of another
\* canonical name
GroupsProducingKey(name) ==
    {oracleCalls[i].type :
       i \in {i2 \in DOMAIN oracleCalls :
                /\ oracleCalls[i2].kind = "merge"
                /\ oracleCalls[i2].answer.kind = "parsed"
                /\ \E j \in DOMAIN oracleCalls[i2].answer.mergedEntities :
                      LET cluster == oracleCalls[i2].answer.mergedEntities[j]
                      IN  /\ cluster.canonicalName # name
                          /\ \E v \in DOMAIN cluster.variations :
                                 cluster.variations[v] = name}}

\* processDocumentsToGraph returned what consolidateGraph gave it
ReturnedConsolidated ==
    pc = "pdg_return" /\ ~ShortCircuits(allNodes, documentNodes)

-----------------------------------------------------------------------------
(* Claims about processDocumentsToGraph *)

\* C1: a mapping entry produced from the names of type group T is applied
\* only to nodes of type T: consolidation rewrites the id of a raw node only
\* if a merge call for the node's own type produced the entry, and two raw
\* nodes of different types with different ids are never merged into one
\* output node.
C1_MappingScopedByType ==
    ReturnedConsolidated =>
        /\ \A i \in DOMAIN allNodes :
              GetOrSelf(entityMapping, allNodes[i].id) # allNodes[i].id
              => allNodes[i].type \in GroupsProducingKey(allNodes[i].id)
        /\ \A i, j \in DOMAIN allNodes :
              (/\ allNodes[i].type # allNodes[j].type
               /\ allNodes[i].id # allNodes[j].id)
              => GetOrSelf(entityMapping, allNodes[i].id)
                   # GetOrSelf(entityMapping, allNodes[j].id)

\* C2: every graph processDocumentsToGraph returns, on the short-circuit
\* path and on the consolidated path, has pairwise distinct node ids.
C2_DistinctNodeIds ==
    pc = "pdg_return" =>
        \A i, j \in DOMAIN finalGraph.nodes :
            finalGraph.nodes[i].id = finalGraph.nodes[j].id => i = j

\* C3: for every input document the returned graph contains a node of type
\* DOCUMENT whose id is the document's name, or "Document N" when it has
\* none.
C3_DocumentNodesKept ==
    pc = "pdg_return" =>
        \A k \in DOMAIN documentTexts :
            \E i \in DOMAIN finalGraph.nodes :
                /\ finalGraph.nodes[i].type = "DOCUMENT"
                /\ finalGraph.nodes[i].id = documentId(documentNames, k)

-----------------------------------------------------------------------------
(* processDocumentsStreamAction, actions.ts:152-243, and                   *)
(* processDocumentsToGraphWithProgress, actions.ts:246-267.  An event is   *)
(* the record of the fields the code writes into one "data: {...}" frame.  *)

\* most uploaded files
MaxFiles == 2

\* uploaded file names: one with the extension, and the bare extension
FileNames == {"a.pdf", ".pdf"}

\* the messages extractTextFromPDF throws with (pdf-extractor.ts)
ExtractionErrors == {"Failed to extract text from PDF: Unknown error"}

\* what the text extractor answers for one file: a text, or it throws
TextAnswers ==
    [kind : {"text"}, text : Texts]
      \cup [kind : {"throws"}, message : ExtractionErrors]

\* the message of a failed dynamic import (lines 177 and 254)
ImportError == "Cannot find module"

\* the TypeError of controller.enqueue and controller.close on a stream that
\* is closed or cancelled
InvalidState == "Invalid state: Controller is already closed"

\* String.prototype.replace with a string pattern: the first occurrence only
RECURSIVE FirstIndexFrom(_, _, _)
FirstIndexFrom(str, pattern, i) ==
    IF i + Len(pattern) - 1 > Len(str) THEN 0
    ELSE IF SubSeq(str, i, i + Len(pattern) - 1) = pattern THEN i
    ELSE FirstIndexFrom(str, pattern, i + 1)

replace(str, pattern, replacement) ==
    LET i == FirstIndexFrom(str, pattern, 1)
    IN  IF i = 0 THEN str
        ELSE SubSeq(str, 1, i - 1) \o replacement
               \o SubSeq(str, i + Len(pattern), Len(str))

\* Math.round(35 - (i / n) * 25): the share of the files still to extract
extractingProgressRemaining(i, n) == (71 * n - 50 * i) \div (2 * n)

\* line 185: Math.round(10 + (i / n) * 25), rounding halves up
extractingProgress(i, n) == (21 * n + 50 * i) \div (2 * n)

\* line 217: Math.min(35 + Math.round(progress * 0.65), 100)
totalProgress(progress) == MinNat(35 + (progress * 65 + 50) \div 100, 100)

\* an error event that replaces the message by a fixed text
ErrorEventUnknown(message) == [status |-> "error", error |-> "Unknown error"]

\* lines 166, 202, 228
ErrorEvent(message) == [status |-> "error", error |-> message]

\* lines 172, 175, 208, 218
ProgressEvent(status, progress) == [status |-> status, progress |-> progress]

\* line 187
ExtractingEvent(i, n, name) ==
    [status |-> "extracting", progress |-> extractingProgress(i, n),
     currentFile |-> name, fileIndex |-> i + 1, totalFiles |-> n]

\* line 223
CompleteEvent(graphData) ==
    [status |-> "complete", progress |-> 100, data |-> graphData]

\* controller.enqueue and controller.close throw unless the stream is
\* readable and no close was requested
CanCloseOrEnqueue == ~closed /\ ~cancelled

\* an outer catch that closes the stream and emits nothing
StreamCatchSilent(message) ==
    IF CanCloseOrEnqueue
    THEN /\ closed' = TRUE
         /\ pc' = "stream_done"
         /\ UNCHANGED events
    ELSE /\ pc' = "stream_rejected"
         /\ UNCHANGED <<events, closed>>

\* lines 226-230, the outer catch: an error event and close; when its own
\* enqueue throws, start() rejects
StreamCatch(message) ==
    IF CanCloseOrEnqueue
    THEN /\ events' = Append(events, ErrorEvent(message))
         /\ closed' = TRUE
         /\ pc' = "stream_done"
    ELSE /\ pc' = "stream_rejected"
         /\ UNCHANGED <<events, closed>>

\* the state of processDocumentsToGraph that the stream action leaves alone
\* until it calls the function
graphVars == <<documentNodes, allChunks, processedChunks, docIndex, chunkIndex,
               allNodes, allRelationships, mergeVars, entityMapping,
               oracleCalls, finalGraph, reportVars, extractionLogged,
               inFlight, chunkVars>>

\* lines 161-177: no files, or the first two events and the import
StreamStart ==
    /\ pc = "stream_entry"
    /\ IF Len(fileEntries) = 0
       THEN /\ events' = Append(events, ErrorEvent("No files provided"))
            /\ closed' = TRUE
            /\ pc' = "stream_done"
       ELSE /\ events' = events \o <<ProgressEvent("starting", 0),
                                     ProgressEvent("loading", 5)>>
            /\ pc' = "stream_import"
            /\ UNCHANGED closed
    /\ UNCHANGED <<fileEntries, fileIndex, cancelled, documentTexts,
                   documentNames, graphVars, result, requestVars>>

\* lines 177-183: the import resolves, or fails into the outer catch
StreamImported ==
    /\ pc = "stream_import"
    /\ \E ok \in BOOLEAN :
          IF ok
          THEN /\ pc' = "stream_file"
               /\ UNCHANGED <<events, closed>>
          ELSE StreamCatch(ImportError)
    /\ UNCHANGED <<fileEntries, fileIndex, cancelled, documentTexts,
                   documentNames, graphVars, result, requestVars>>

\* lines 183-187 and 208-211: the loop head.  Another file: its extracting
\* event, then the extraction is awaited.  No more files: the processing
\* event, then processDocumentsToGraphWithProgress awaits its import.
StreamFile ==
    /\ pc = "stream_file"
    /\ IF ~CanCloseOrEnqueue
       THEN StreamCatch(InvalidState)
       ELSE IF fileIndex < Len(fileEntries)
       THEN /\ events' = Append(events,
                           ExtractingEvent(fileIndex, Len(fileEntries),
                                           fileEntries[fileIndex + 1]))
            /\ pc' = "stream_extract"
            /\ UNCHANGED closed
       ELSE /\ events' = Append(events, ProgressEvent("processing", 35))
            /\ pc' = "wp_import"
            /\ UNCHANGED closed
    /\ UNCHANGED <<fileEntries, fileIndex, cancelled, documentTexts,
                   documentNames, graphVars, result, requestVars>>

\* lines 189-205: the extractor answers.  A text is pushed with the file's
\* name; a throw goes to the inner catch: an error event naming the file,
\* close, return.  An enqueue that throws there reaches the outer catch.
StreamExtracted ==
    /\ pc = "stream_extract"
    /\ \E answer \in TextAnswers :
          LET name == fileEntries[fileIndex + 1]
          IN  IF answer.kind = "text"
              THEN /\ documentTexts' = Append(documentTexts, answer.text)
                   /\ documentNames' =
                         Append(documentNames, replace(name, ".pdf", ""))
                   /\ pc' = "stream_file_delay"
                   /\ UNCHANGED <<events, closed>>
              ELSE /\ IF CanCloseOrEnqueue
                      THEN /\ events' =
                                Append(events,
                                  ErrorEvent("Failed to extract text from "
                                             \o name \o ": " \o answer.message))
                           /\ closed' = TRUE
                           /\ pc' = "stream_done"
                      ELSE StreamCatch(InvalidState)
                   /\ UNCHANGED <<documentTexts, documentNames>>
    /\ UNCHANGED <<fileEntries, fileIndex, cancelled, graphVars, result, requestVars>>

\* a delay whose timer never fires
StreamFileDelayNeverFires ==
    /\ pc = "stream_file_delay"
    /\ UNCHANGED vars

\* line 198 and the loop's i++
StreamFileDelay ==
    /\ pc = "stream_file_delay"
    /\ fileIndex' = fileIndex + 1
    /\ pc' = "stream_file"
    /\ UNCHANGED <<fileEntries, events, closed, cancelled, documentTexts,
                   documentNames, graphVars, result, requestVars>>

\* lines 254-258: the import resolves, progressCallback(0) enqueues, and
\* processDocumentsToGraph is called without the callback; a failed import
\* or a throwing enqueue reaches the outer catch
WpImported ==
    /\ pc = "wp_import"
    /\ \E ok \in BOOLEAN :
          IF ~ok
          THEN StreamCatch(ImportError)
          ELSE IF CanCloseOrEnqueue
          THEN /\ events' = Append(events,
                              ProgressEvent("processing", totalProgress(0)))
               /\ pc' = "pdg_entry"
               /\ UNCHANGED closed
          ELSE StreamCatch(InvalidState)
    /\ UNCHANGED <<fileEntries, fileIndex, cancelled, documentTexts,
                   documentNames, graphVars, result, requestVars>>

\* lines 265-266 and 223-224: processDocumentsToGraph has returned;
\* progressCallback(100), the complete event with the graph, close
WpReturn ==
    /\ pc = "pdg_return"
    /\ IF CanCloseOrEnqueue
       THEN /\ events' = events \o
                   <<ProgressEvent("processing", totalProgress(100)),
                     CompleteEvent(finalGraph)>>
            /\ closed' = TRUE
            /\ pc' = "stream_done"
       ELSE StreamCatch(InvalidState)
    /\ UNCHANGED <<fileEntries, fileIndex, cancelled, documentTexts,
                   documentNames, graphVars, result, requestVars>>

\* start() is suspended at an await that yields to the event loop: an
\* import, a text extraction, an oracle call or a timer
Suspended ==
    pc \in {"stream_import", "stream_extract", "stream_file_delay",
            "wp_import", "extract_await", "pdg_delay", "merge_await",
            "merge_delay"}

\* the client disconnects: the response's stream is cancelled while start()
\* is suspended at an await
Cancel ==
    /\ Suspended
    /\ ~cancelled
    /\ ~closed
    /\ cancelled' = TRUE
    /\ UNCHANGED <<pc, fileEntries, fileIndex, events, closed, documentTexts,
                   documentNames, graphVars, result, requestVars>>

InitStream ==
    /\ pc = "stream_entry"
    /\ result = NoResult
    /\ IdleRequest
    /\ IdleChunk
    /\ fileEntries \in SeqsUpTo(FileNames, MaxFiles)
    /\ fileIndex = 0
    /\ events = <<>>
    /\ closed = FALSE
    /\ cancelled = FALSE
    /\ documentTexts = <<>>
    /\ documentNames = <<>>
    /\ documentNodes = <<>>
    /\ allChunks = <<>>
    /\ processedChunks = 0
    /\ docIndex = 0
    /\ chunkIndex = 0
    /\ allNodes = <<>>
    /\ allRelationships = <<>>
    /\ entityMapping = EmptyMap
    /\ oracleCalls = <<>>
    /\ finalGraph = NoGraph
    /\ IdleMerge
    /\ IdleReports

NextStream ==
    \/ StreamStart
    \/ StreamImported
    \/ StreamFile
    \/ StreamExtracted
    \/ StreamFileDelay
    \/ WpImported
    \/ WpReturn
    \/ Cancel
    \/ NextPdg

SpecStream == InitStream /\ [][NextStream]_vars

\* start() has settled: it returned after a close, or it rejected
StreamFinished == pc \in {"stream_done", "stream_rejected"}

IsTerminal(event) == event.status \in {"complete", "error"}

TerminalEvents == {i \in DOMAIN events : IsTerminal(events[i])}

\* the terminal event carries what its status promises
CarriesPayload(event) ==
    IF event.status = "complete"
    THEN "data" \in DOMAIN event /\ event.data = finalGraph
    ELSE "error" \in DOMAIN event /\ event.error # ""

-----------------------------------------------------------------------------
(* Claims about processDocumentsStreamAction *)

\* C10, as stated: every streaming run that has finished emitted exactly one
\* terminal event (complete with the graph, or error with a message), it is
\* the last event, and the stream is closed after it.
C10_ExactlyOneTerminal ==
    StreamFinished =>
        /\ Cardinality(TerminalEvents) = 1
        /\ Len(events) \in TerminalEvents
        /\ CarriesPayload(events[Len(events)])
        /\ closed

\* C10, amended: at every moment of a streaming run at most one terminal
\* event has been emitted, it is the last event and carries its payload, and
\* the stream is closed exactly when a terminal event has been emitted; a
\* finished run whose client did not cancel the stream emitted exactly one
\* terminal event, and a run whose client cancelled emitted none.
C10_TerminalEventLast ==
    /\ Cardinality(TerminalEvents) <= 1
    /\ TerminalEvents # {} =>
          /\ Len(events) \in TerminalEvents
          /\ CarriesPayload(events[Len(events)])
    /\ closed <=> TerminalEvents # {}
    /\ closed <=> pc = "stream_done"
    /\ (StreamFinished /\ ~cancelled) => Cardinality(TerminalEvents) = 1
    /\ cancelled => TerminalEvents = {}

\* a run ended with the complete event that carries a graph with an entity
C10_Witness ==
    /\ pc = "stream_done"
    /\ events[Len(events)].status = "complete"
    /\ Len(events[Len(events)].data.nodes) >= 2
    /\ Len(events) >= 6

-----------------------------------------------------------------------------
(* Termination of a streaming run.  Every await of start() settles: the     *)
(* imports, the text extractor, the oracle and the timers answer or fail,   *)
(* so a step of the program that is enabled is eventually taken.  The       *)
(* client's cancel is no step of the program and is under no obligation.    *)

\* a step of start() and of what it calls
ProgramStep == NextStream /\ cancelled' = cancelled

FairStream == WF_vars(ProgramStep)

\* most uploaded files in the runs checked for termination
MaxFairFiles == 1

InitStreamFair == InitStream /\ Len(fileEntries) <= MaxFairFiles

SpecStreamFair == InitStreamFair /\ [][NextStream]_vars /\ FairStream

\* the run delivered its terminal event and closed the stream
StreamDelivered == closed /\ TerminalEvents # {}

\* start() rejected after the client had cancelled the stream
StreamAbandoned == pc = "stream_rejected" /\ cancelled

\* C11, as stated: every streaming run eventually emits a terminal event and
\* closes the stream.
C11_EventuallyTerminal == <>StreamDelivered

\* C11, amended: every streaming run eventually either emits a terminal
\* event and closes the stream, or, the client having cancelled the stream,
\* ends with start() rejected; a run never stays open forever.
C11_EventuallySettles == <>(StreamDelivered \/ StreamAbandoned)

\* a run that made oracle calls delivered its complete event
C11_Witness ==
    /\ StreamDelivered
    /\ events[Len(events)].status = "complete"
    /\ Len(oracleCalls) >= 1
    /\ ~cancelled

-----------------------------------------------------------------------------
(* Claims about the progress reports of processDocumentsToGraph *)

InRange(value) == FracLeq(Whole(0), value) /\ FracLeq(value, Whole(100))

NonDecreasing(values) ==
    \A i \in 1..(Len(values) - 1) : FracLeq(values[i], values[i + 1])

IsHundred(value) == FracLeq(value, Whole(100)) /\ FracLeq(Whole(100), value)

\* C12: the progress values processDocumentsToGraph passes to its callback
\* during one run are non-decreasing, every value lies in [0,100], and when
\* the function has returned (on either path) the last value is 100.
C12_ProgressMonotone ==
    callbackGiven =>
        /\ \A i \in DOMAIN progressReports : InRange(progressReports[i])
        /\ NonDecreasing(progressReports)
        /\ pc = "pdg_return" =>
              /\ progressReports # <<>>
              /\ IsHundred(progressReports[Len(progressReports)])

\* a run over two chunks and two type groups returned on the consolidated
\* path, with a merge report strictly between 75 and 90
C12_Witness ==
    /\ callbackGiven
    /\ ReturnedConsolidated
    /\ processedChunks >= 2
    /\ Len(entityTypes) = 2
    /\ \E i \in DOMAIN progressReports :
          /\ ~FracLeq(progressReports[i], Whole(75))
          /\ ~FracLeq(Whole(90), progressReports[i])

-----------------------------------------------------------------------------
(* Claims about the progress events of processDocumentsStreamAction *)

\* the events before the terminal event
NonTerminalEvents == {i \in DOMAIN events : ~IsTerminal(events[i])}

\* C13: in a streaming run every non-terminal event carries a progress value
\* in [0,100], and the progress values of successive events are
\* non-decreasing.
C13_EventProgressMonotone ==
    /\ \A i \in NonTerminalEvents :
          /\ "progress" \in DOMAIN events[i]
          /\ events[i].progress \in 0..100
    /\ \A i, j \in DOMAIN events :
          (/\ i < j
           /\ "progress" \in DOMAIN events[i]
           /\ "progress" \in DOMAIN events[j])
          => events[i].progress <= events[j].progress

\* a run over two files emitted two extracting events with different
\* progress values and reached the processing event with progress 100
C13_Witness ==
    /\ Len(fileEntries) = 2
    /\ \E i, j \in NonTerminalEvents :
          /\ events[i].status = "extracting"
          /\ events[j].status = "extracting"
          /\ events[i].progress < events[j].progress
    /\ \E k \in NonTerminalEvents :
          events[k].status = "processing" /\ events[k].progress = 100

\* the run ended with the complete event
StreamCompleted ==
    /\ pc = "stream_done"
    /\ events[Len(events)].status = "complete"

\* C14: in a streaming run the progress reports the orchestrator makes while
\* it extracts chunks are pushed into the event stream: a completed run that
\* processed two or more chunks has emitted a processing event whose progress
\* lies strictly between that of the start of graph processing (35) and
\* that of completion (100).
C14_ChunkProgressStreamed ==
    (StreamCompleted /\ processedChunks >= 2) =>
        \E i \in DOMAIN events :
            /\ events[i].status = "processing"
            /\ events[i].progress > 35
            /\ events[i].progress < 100

-----------------------------------------------------------------------------
(* Claims about failures of the oracle in processDocumentsToGraph *)

RECURSIVE ChunkOrderFrom(_, _)
\* lines 290 and 306: the pairs <<document, chunk>> in the order the loops
\* visit them, from document k on
ChunkOrderFrom(chunkLists, k) ==
    IF k > Len(chunkLists) THEN <<>>
    ELSE [c \in 1..Len(chunkLists[k]) |-> <<k, c>>]
           \o ChunkOrderFrom(chunkLists, k + 1)

ChunkOrder == ChunkOrderFrom(allChunks, 1)

IsExtractCall(call) == call.kind = "extract"

\* the extraction calls made so far, as pairs <<document, chunk>>
ExtractCalls ==
    LET calls == SelectSeq(oracleCalls, IsExtractCall)
    IN  [i \in DOMAIN calls |-> <<calls[i].document, calls[i].chunk>>]

\* the answer of an oracle that found nothing
EmptyExtraction == [kind |-> "parsed", entities |-> <<>>, relationships |-> <<>>]

\* the loops over documents and chunks are over
ExtractionOver ==
    \/ pc \in {"merge_entry", "merge_loop", "merge_await", "merge_delay",
               "merge_return", "pdg_return"}
    \/ pc = "pdg_doc" /\ docIndex >= Len(documentTexts)

\* the calls the loops have made when control is at pc
CallsMade ==
    IF pc = "pdg_delay" THEN processedChunks + 1 ELSE processedChunks

\* C15: an extraction call that fails or gives no parsed result leaves the
\* accumulated nodes and relationships as an empty result does; the
\* extraction calls made are, at every moment, the first chunks in document
\* and chunk order, one call per chunk (no retry), also after a failure; and
\* when the loops are over every chunk of every document has had its call.
C15_FailedChunkIsEmpty ==
    /\ pc = "extract_await" =>
          \A answer \in ExtractAnswers :
              answer.kind # "parsed" =>
                  /\ accumulated(answer) = accumulated(EmptyExtraction)
                  /\ accumulated(answer).allNodes = allNodes
                  /\ accumulated(answer).allRelationships = allRelationships
    /\ pc \notin {"pdg_entry", "consolidate", "consolidated", "reconsolidated"}
         /\ allChunks # <<>> =>
          /\ CallsMade <= Len(ChunkOrder)
          /\ ExtractCalls = SubSeq(ChunkOrder, 1, CallsMade)
    /\ ExtractionOver => ExtractCalls = ChunkOrder

\* a run in which an extraction failed, a later chunk still contributed an
\* entity, and every chunk of two documents had exactly one call
C15_Witness ==
    /\ pc = "pdg_return"
    /\ extractionLogged
    /\ Len(documentTexts) = 2
    /\ Len(ExtractCalls) >= 3
    /\ ExtractCalls = ChunkOrder
    /\ Len(allNodes) > Len(documentNodes)

IsMergeCall(call) == call.kind = "merge"

\* the merge calls made so far
MergeCalls == SelectSeq(oracleCalls, IsMergeCall)

IsAnswered(call) == call.answer.kind # "throws"

RECURSIVE MappingOf(_, _)
\* the mapping the answers of calls produce, set in order on mapping
MappingOf(calls, mapping) ==
    IF calls = <<>> THEN mapping
    ELSE MappingOf(Tail(calls), mappingAfter(Head(calls).answer, mapping))

\* C16, the mapping: at every moment of a resolve call the mapping is what
\* the answers of the calls that did not fail produce, in order, so a failed
\* call adds no entry and takes nothing from the entries of the other groups.
C16_MappingOfAnswered ==
    pc \in {"merge_loop", "merge_await", "merge_delay", "merge_return"} =>
        /\ entityMapping = MappingOf(SelectSeq(MergeCalls, IsAnswered), EmptyMap)
        /\ \A i \in DOMAIN MergeCalls :
              ~IsAnswered(MergeCalls[i]) =>
                  MappingOf(SubSeq(MergeCalls, 1, i), EmptyMap)
                    = MappingOf(SubSeq(MergeCalls, 1, i - 1), EmptyMap)

\* C16, the control: the step of a failed merge call leaves the mapping as it
\* is and goes on with the next type group.
C16_FailedStepGoesOn ==
    (/\ pc = "merge_await"
     /\ Len(oracleCalls') = Len(oracleCalls) + 1
     /\ ~IsAnswered(oracleCalls'[Len(oracleCalls')]))
    => /\ entityMapping' = entityMapping
       /\ typeIndex' = typeIndex + 1
       /\ pc' = "merge_loop"

\* C16: when the merge call fails for one type group, that group adds no
\* entry, the entries of the other groups are what they would be without it,
\* and the resolver goes on to its return.
C16_FailedGroupNonFatal ==
    [](C16_MappingOfAnswered) /\ [][C16_FailedStepGoesOn]_vars

\* the resolver returned after the call for the first group had failed and
\* the call for the second group had set an entry
C16_Witness ==
    /\ pc = "merge_return"
    /\ Len(MergeCalls) = 2
    /\ ~IsAnswered(MergeCalls[1])
    /\ IsAnswered(MergeCalls[2])
    /\ entityMapping # EmptyMap

\* no extraction of the run yielded an entity
NoEntityExtracted == Len(allNodes) = Len(documentNodes)

\* C17: when no chunk extraction yields an entity, also when every
\* extraction fails, processDocumentsToGraph makes no merge call, reports
\* progress 100 and returns exactly the document nodes with no relationship;
\* for one document that is one DOCUMENT node and zero relationships.
C17_NoEntitiesShortCircuit ==
    (pc = "pdg_return" /\ NoEntityExtracted) =>
        /\ MergeCalls = <<>>
        /\ finalGraph = [nodes |-> documentNodes, relationships |-> <<>>]
        /\ Len(finalGraph.nodes) = Len(documentTexts)
        /\ \A i \in DOMAIN finalGraph.nodes : finalGraph.nodes[i].type = "DOCUMENT"
        /\ callbackGiven => IsHundred(progressReports[Len(progressReports)])
        /\ Len(documentTexts) = 1 =>
              /\ Len(finalGraph.nodes) = 1
              /\ finalGraph.nodes[1].id = documentId(documentNames, 1)

\* a run over one document of two chunks whose extractions failed returned
C17_Witness ==
    /\ pc = "pdg_return"
    /\ NoEntityExtracted
    /\ extractionLogged
    /\ Len(documentTexts) = 1
    /\ processedChunks = 2
    /\ Len(finalGraph.nodes) = 1

-----------------------------------------------------------------------------
(* Claims about failures in processDocumentsStreamAction *)

\* String.prototype.includes
includes(str, part) == FirstIndexFrom(str, part, 1) # 0

\* the step in which the text extractor throws for the file at fileIndex:
\* the only step from the await that pushes no text
ExtractionFails ==
    /\ pc = "stream_extract"
    /\ pc' # "stream_extract"
    /\ documentTexts' = documentTexts

\* what the inner catch does when the stream takes its event
FailureReported ==
    /\ events' = Append(events, events'[Len(events')])
    /\ events'[Len(events')].status = "error"
    /\ includes(events'[Len(events')].error, fileEntries[fileIndex + 1])
    /\ closed'
    /\ pc' = "stream_done"

\* a finished run that extracted fewer texts than it had files made no
\* oracle call and emitted no complete event
NothingAfterFailure ==
    (StreamFinished /\ Len(documentTexts) < Len(fileEntries)) =>
        /\ oracleCalls = <<>>
        /\ \A i \in DOMAIN events : events[i].status # "complete"

\* C18, as stated: when text extraction fails for a file, an error event
\* whose message names the file is emitted and the stream is closed; no later
\* file is extracted, no oracle call is made and no complete event follows.
C18_FailureAlwaysReported ==
    [][ExtractionFails => FailureReported /\ StreamFinished']_vars
      /\ []NothingAfterFailure

\* C18, amended: when text extraction fails for a file and the client has not
\* cancelled the stream, an error event whose message names the file is
\* emitted and the stream is closed; when the client has cancelled, start()
\* rejects and nothing is emitted.  In both cases the run is over: no later
\* file is extracted, no oracle call is made, no complete event follows.
C18_FailureReportedUnlessCancelled ==
    [][ExtractionFails =>
          /\ StreamFinished'
          /\ UNCHANGED <<fileIndex, documentTexts, documentNames, oracleCalls>>
          /\ IF cancelled
             THEN pc' = "stream_rejected" /\ UNCHANGED <<events, closed>>
             ELSE FailureReported]_vars
      /\ []NothingAfterFailure

\* the extraction of the second of two files failed and the error event that
\* names it ended the run
C18_Witness ==
    /\ pc = "stream_done"
    /\ Len(fileEntries) = 2
    /\ Len(documentTexts) = 1
    /\ fileIndex = 1
    /\ events[Len(events)].status = "error"
    /\ includes(events[Len(events)].error, fileEntries[2])
    /\ oracleCalls = <<>>

-----------------------------------------------------------------------------
(* processDocumentsAction, actions.ts:91-149 *)

\* a thrown Error with its message
ThrownError(message) == [isError |-> TRUE, message |-> message]

\* line 146: error instanceof Error ? error.message : 'Unknown error occurred'
errorMessage(thrown) ==
    IF thrown.isError THEN thrown.message ELSE "Unknown error occurred"

\* a catch block that throws the error on
ActionCatchRethrows(thrown) ==
    /\ pc' = "action_threw"
    /\ UNCHANGED result

\* lines 142-148: the catch block returns the failure
ActionCatch(thrown) ==
    /\ result' = [success |-> FALSE, error |-> errorMessage(thrown)]
    /\ pc' = "action_return"

\* the state the action leaves alone until it calls processDocumentsToGraph
actionRest == <<events, closed, cancelled, documentNodes, allChunks,
                processedChunks, docIndex, chunkIndex, allNodes,
                allRelationships, mergeVars, entityMapping, oracleCalls,
                finalGraph, reportVars, extractionLogged, inFlight,
                chunkVars, requestVars>>

\* lines 96-110: no files throws into the catch; otherwise the imports are
\* awaited
ActionStart ==
    /\ pc = "action_entry"
    /\ IF Len(fileEntries) = 0
       THEN ActionCatch(ThrownError("No files provided"))
       ELSE pc' = "action_import" /\ UNCHANGED result
    /\ UNCHANGED <<fileEntries, fileIndex, documentTexts, documentNames,
                   actionRest>>

\* lines 104-116: Promise.all of the two imports resolves or rejects
ActionImported ==
    /\ pc = "action_import"
    /\ \E ok \in BOOLEAN :
          IF ok
          THEN pc' = "action_file" /\ UNCHANGED result
          ELSE ActionCatch(ThrownError(ImportError))
    /\ UNCHANGED <<fileEntries, fileIndex, documentTexts, documentNames,
                   actionRest>>

\* lines 116-120 and 131: the loop head; after the last file
\* processDocumentsToGraph is called without a progress callback
ActionFile ==
    /\ pc = "action_file"
    /\ IF fileIndex < Len(fileEntries)
       THEN pc' = "action_extract"
       ELSE pc' = "pdg_entry"
    /\ UNCHANGED <<fileEntries, fileIndex, documentTexts, documentNames,
                   result, actionRest>>

\* lines 120-128: the extractor answers with a text, or throws into the catch
ActionExtracted ==
    /\ pc = "action_extract"
    /\ \E answer \in TextAnswers :
          IF answer.kind = "text"
          THEN /\ documentTexts' = Append(documentTexts, answer.text)
               /\ documentNames' =
                     Append(documentNames,
                            replace(fileEntries[fileIndex + 1], ".pdf", ""))
               /\ fileIndex' = fileIndex + 1
               /\ pc' = "action_file"
               /\ UNCHANGED result
          ELSE /\ ActionCatch(ThrownError(answer.message))
               /\ UNCHANGED <<documentTexts, documentNames, fileIndex>>
    /\ UNCHANGED <<fileEntries, actionRest>>

\* lines 131-141: processDocumentsToGraph has returned
ActionReturn ==
    /\ pc = "pdg_return"
    /\ result' = [success |-> TRUE, data |-> finalGraph]
    /\ pc' = "action_return"
    /\ UNCHANGED <<fileEntries, fileIndex, documentTexts, documentNames,
                   actionRest>>

InitAction ==
    /\ pc = "action_entry"
    /\ fileEntries \in SeqsUpTo(FileNames, MaxFiles)
    /\ fileIndex = 0
    /\ events = <<>>
    /\ closed = FALSE
    /\ cancelled = FALSE
    /\ result = NoResult
    /\ IdleRequest
    /\ IdleChunk
    /\ documentTexts = <<>>
    /\ documentNames = <<>>
    /\ documentNodes = <<>>
    /\ allChunks = <<>>
    /\ processedChunks = 0
    /\ docIndex = 0
    /\ chunkIndex = 0
    /\ allNodes = <<>>
    /\ allRelationships = <<>>
    /\ entityMapping = EmptyMap
    /\ oracleCalls = <<>>
    /\ finalGraph = NoGraph
    /\ IdleMerge
    /\ IdleReports

NextAction ==
    \/ ActionStart
    \/ ActionImported
    \/ ActionFile
    \/ ActionExtracted
    \/ ActionReturn
    \/ NextPdg

SpecAction == InitAction /\ [][NextAction]_vars

-----------------------------------------------------------------------------
(* Claims about processDocumentsAction *)

\* C19: processDocumentsAction never throws; when it has returned, the
\* result is {success: false, error} with a message after a failure of the
\* imports or of a text extraction or with no files, and otherwise
\* {success: true, data} with the graph; exactly one of data and error is
\* present.  Before the return there is no result.
C19_AlwaysAResult ==
    /\ pc # "action_threw"
    /\ pc # "action_return" => result = NoResult
    /\ pc = "action_return" =>
          /\ DOMAIN result \in {{"success", "data"}, {"success", "error"}}
          /\ result.success <=> "data" \in DOMAIN result
          /\ result.success =>
                /\ result.data = finalGraph
                /\ Len(documentTexts) = Len(fileEntries)
                /\ Len(fileEntries) > 0
          /\ ~result.success =>
                /\ result.error # ""
                /\ finalGraph = NoGraph
                /\ oracleCalls = <<>>

\* the action returned a graph with an extracted entity
C19_Witness ==
    /\ pc = "action_return"
    /\ result.success
    /\ Len(result.data.nodes) >= 2
    /\ Len(oracleCalls) >= 2

-----------------------------------------------------------------------------
(* A request from the page to the route: handleProcessDocuments,           *)
(* part_000:112-144, and POST, route.ts:42-83, which calls                  *)
(* processDocumentsStreamAction.  Another client can send the route any     *)
(* headers.                                                                 *)

\* most files in a request
MaxRequestFiles == 1

\* the selections: nothing, or one type
Vocabularies == {<<>>, <<"T">>}

RECURSIVE JoinQuoted(_)
\* the elements in double quotes, separated by commas
JoinQuoted(list) ==
    IF list = <<>> THEN ""
    ELSE "\"" \o Head(list) \o "\""
         \o (IF Tail(list) = <<>> THEN "" ELSE ",")
         \o JoinQuoted(Tail(list))

\* JSON.stringify of an array of plain names
JSONstringify(list) == "[" \o JoinQuoted(list) \o "]"

\* btoa on the texts the page can produce
Base64 == [text \in {JSONstringify(v) : v \in Vocabularies} |->
             IF text = "[]" THEN "W10=" ELSE "WyJUIl0="]

btoa(text) == Base64[text]

\* JSON.parse(atob(value)) returns, rather than throws
Decodes(value) == \E v \in Vocabularies : btoa(JSONstringify(v)) = value

\* JSON.parse(atob(value))
decode(value) == CHOOSE v \in Vocabularies : btoa(JSONstringify(v)) = value

\* the header values another client sends: none, empty, not base64, and the
\* two the page can produce
HeaderValues ==
    {NoHeader, Header(""), Header("%")}
      \cup {Header(btoa(JSONstringify(v))) : v \in Vocabularies}

\* !header
Missing(header) == ~header.present \/ header.value = ""

\* what the request handling leaves alone
requestRest == <<fileEntries, fileIndex, events, closed, cancelled,
                 documentTexts, documentNames, graphVars, result>>

\* part_000:112-144: the page checks its inputs, then posts the files with
\* the two encoded headers
HandleProcessDocuments ==
    /\ pc = "ui_entry"
    /\ IF Len(fileEntries) = 0
       THEN /\ uiError' = "Please upload at least one document"
            /\ pc' = "ui_rejected"
            /\ UNCHANGED <<entitiesHeader, relationshipsHeader>>
       ELSE IF selectedEntities = <<>> \/ selectedRelationships = <<>>
       THEN /\ uiError' =
                  "Please select at least one entity type and one relationship type"
            /\ pc' = "ui_rejected"
            /\ UNCHANGED <<entitiesHeader, relationshipsHeader>>
       ELSE /\ uiError' = ""
            /\ entitiesHeader' = Header(btoa(JSONstringify(selectedEntities)))
            /\ relationshipsHeader' =
                  Header(btoa(JSONstringify(selectedRelationships)))
            /\ pc' = "route_entry"
    /\ UNCHANGED <<selectedEntities, selectedRelationships, response, client,
                   requestRest>>

\* route.ts:42-83: the form data, the two headers, their decoding, the call
POST ==
    /\ pc = "route_entry"
    /\ \E formData \in BOOLEAN :
          IF ~formData
          THEN /\ response' = 500
               /\ pc' = "route_failed"
               /\ UNCHANGED <<selectedEntities, selectedRelationships>>
          ELSE IF Missing(entitiesHeader) \/ Missing(relationshipsHeader)
          THEN /\ response' = 400
               /\ pc' = "route_rejected"
               /\ UNCHANGED <<selectedEntities, selectedRelationships>>
          ELSE IF ~Decodes(entitiesHeader.value)
                    \/ ~Decodes(relationshipsHeader.value)
          THEN /\ response' = 400
               /\ pc' = "route_rejected"
               /\ UNCHANGED <<selectedEntities, selectedRelationships>>
          ELSE /\ selectedEntities' = decode(entitiesHeader.value)
               /\ selectedRelationships' = decode(relationshipsHeader.value)
               /\ response' = 200
               /\ pc' = "stream_entry"
    /\ UNCHANGED <<entitiesHeader, relationshipsHeader, uiError, client,
                   requestRest>>

InitRequest ==
    /\ fileEntries \in SeqsUpTo(FileNames, MaxRequestFiles)
    /\ \/ /\ client = "page"
          /\ pc = "ui_entry"
          /\ selectedEntities \in Vocabularies
          /\ selectedRelationships \in Vocabularies
          /\ entitiesHeader = NoHeader
          /\ relationshipsHeader = NoHeader
       \/ /\ client = "other"
          /\ pc = "route_entry"
          /\ selectedEntities = <<>>
          /\ selectedRelationships = <<>>
          /\ entitiesHeader \in HeaderValues
          /\ relationshipsHeader \in HeaderValues
    /\ response = 0
    /\ uiError = ""
    /\ IdleChunk
    /\ fileIndex = 0
    /\ events = <<>>
    /\ closed = FALSE
    /\ cancelled = FALSE
    /\ result = NoResult
    /\ documentTexts = <<>>
    /\ documentNames = <<>>
    /\ documentNodes = <<>>
    /\ allChunks = <<>>
    /\ processedChunks = 0
    /\ docIndex = 0
    /\ chunkIndex = 0
    /\ allNodes = <<>>
    /\ allRelationships = <<>>
    /\ entityMapping = EmptyMap
    /\ oracleCalls = <<>>
    /\ finalGraph = NoGraph
    /\ IdleMerge
    /\ IdleReports

NextRequest ==
    \/ HandleProcessDocuments
    \/ POST
    \/ NextStream

SpecRequest == InitRequest /\ [][NextRequest]_vars

\* a text extraction call or an oracle call has been made
ProcessingStarted ==
    \/ pc = "stream_extract"
    \/ documentTexts # <<>>
    \/ oracleCalls # <<>>

\* the request was answered with an error before any processing
RequestRejected ==
    \/ pc = "ui_rejected" /\ uiError # ""
    \/ pc = "route_rejected" /\ response = 400
    \/ pc = "route_failed" /\ response = 500
    \/ pc = "stream_done" /\ events = <<ErrorEvent("No files provided")>>

RequestOver ==
    pc \in {"ui_rejected", "route_rejected", "route_failed", "stream_done",
            "stream_rejected"}

EmptyInput ==
    \/ fileEntries = <<>>
    \/ selectedEntities = <<>>
    \/ selectedRelationships = <<>>

-----------------------------------------------------------------------------
(* Claims about input errors *)

\* C20: when the file list, the selected entity types or the selected
\* relationship types are empty, the request is rejected with an error
\* before any text extraction call and any oracle call: no text extraction
\* and no oracle call is ever made for a request with an empty input.
C20_EmptyInputRejected == ProcessingStarted => ~EmptyInput

\* the request is rejected before any call, and ends rejected
RejectedWhen(empty) ==
    /\ ProcessingStarted => ~empty
    /\ (RequestOver /\ empty) => RequestRejected

\* the same for the requests the page sends
C20_PageInputRejected == client = "page" => RejectedWhen(EmptyInput)

\* the same for an empty file list alone, whoever sends the request
C20_NoFilesRejected == RejectedWhen(fileEntries = <<>>)

-----------------------------------------------------------------------------
(* Claims about cancellation and the order of the oracle calls *)

\* an oracle call is in flight: extractFromChunk (line 68) or
\* mergeEntitiesWithLLM (line 156) awaits openai.chat.completions.parse
OracleInFlight == pc \in {"extract_await", "merge_await"}

\* this step begins an oracle call
StartsOracleCall == ~OracleInFlight /\ OracleInFlight'

\* C21: once the client has cancelled the progress stream, no new oracle call
\* begins: no step taken after the cancellation starts a chunk extraction
\* call or a merge call.
C21_NoCallAfterCancel == [][cancelled => ~StartsOracleCall]_vars


\* every extraction call in the history precedes every merge call
ExtractionBeforeMerge ==
    \A i, j \in DOMAIN oracleCalls :
        (IsExtractCall(oracleCalls[i]) /\ IsMergeCall(oracleCalls[j])) => i < j

\* one call at a time, made in the order of the loops, extraction first
OneCallAtATime ==
    /\ inFlight \in {0, 1}
    /\ inFlight = 1 <=> OracleInFlight
    /\ ExtractionBeforeMerge
    /\ allChunks # <<>> =>
          /\ Len(ExtractCalls) <= Len(ChunkOrder)
          /\ ExtractCalls = SubSeq(ChunkOrder, 1, Len(ExtractCalls))
    /\ (pc \in {"merge_await", "merge_delay"} \/ MergeCalls # <<>>) =>
          ExtractCalls = ChunkOrder
    /\ finalGraph # NoGraph => inFlight = 0 /\ pc = "pdg_return"

\* the accumulators change at the start of the run or when an extraction call
\* settles, never while a call stays in flight; a call is issued only when
\* none is in flight; nothing is called once the graph is consolidated
CallsDoNotOverlap ==
    /\ (allNodes' # allNodes \/ allRelationships' # allRelationships) =>
          \/ pc = "pdg_entry"
          \/ pc = "extract_await" /\ inFlight = 1 /\ inFlight' = 0
    /\ inFlight' > inFlight => inFlight = 0
    /\ finalGraph' # finalGraph =>
          /\ pc \in {"merge_return", "pdg_doc"}
          /\ inFlight = 0
    /\ finalGraph # NoGraph => oracleCalls' = oracleCalls

\* C22: in one run of processDocumentsToGraph at most one oracle call is in
\* flight, the accumulated nodes and relationships change only between calls,
\* the extraction calls are issued in document order and in chunk order
\* within a document, every extraction call is over before the first merge
\* call starts, and the graph is consolidated only after the last merge call.
C22_SequentialCalls == []OneCallAtATime /\ [][CallsDoNotOverlap]_vars

\* a run over two documents and three chunks with a merge call, consolidated
C22_Witness ==
    /\ ReturnedConsolidated
    /\ Len(documentTexts) = 2
    /\ Len(ExtractCalls) = 3
    /\ MergeCalls # <<>>
    /\ finalGraph # NoGraph

-----------------------------------------------------------------------------
(* One call of chunkText, graph-processor.ts:36-59 *)

\* longest text built from the alphabet
MaxTextLen == 6

\* largest maxChars
MaxLimit == 7

\* a letter, white space, a terminator
ChunkAlphabet == {"a", " ", "."}

RECURSIVE Concat(_)
\* the string of a sequence of one-character strings
Concat(characters) ==
    IF characters = <<>> THEN ""
    ELSE Head(characters) \o Concat(Tail(characters))

\* texts with the other terminators, runs of terminators, longer sentences
\* and no final terminator
OtherTexts ==
    {"A. B. C.", "a! b? c", "ab?!cd ef", "abcdefgh. a", "a.\n\tb.", "?!?!?!?!"}

ChunkTexts ==
    {Concat(characters) : characters \in SeqsUpTo(ChunkAlphabet, MaxTextLen)}
      \cup OtherTexts

\* the call chunkText(textArg, maxCharsArg) returns
ChunkText ==
    /\ pc = "chunk_entry"
    /\ chunksReturned' = chunkText(textArg, maxCharsArg)
    /\ pc' = "chunk_return"
    /\ UNCHANGED <<textArg, maxCharsArg, pdgVars, allNodes, allRelationships,
                   mergeVars, entityMapping, oracleCalls, finalGraph,
                   streamVars, reportVars, extractionLogged, inFlight, result,
                   requestVars>>

InitChunk ==
    /\ pc = "chunk_entry"
    /\ textArg \in ChunkTexts
    /\ maxCharsArg \in 1..MaxLimit
    /\ chunksReturned = <<>>
    /\ allNodes = <<>>
    /\ allRelationships = <<>>
    /\ entityMapping = EmptyMap
    /\ oracleCalls = <<>>
    /\ finalGraph = NoGraph
    /\ IdlePdg
    /\ IdleMerge
    /\ fileEntries = <<>>
    /\ fileIndex = 0
    /\ events = <<>>
    /\ closed = FALSE
    /\ cancelled = FALSE
    /\ result = NoResult
    /\ IdleRequest
    /\ IdleReports

NextChunk == ChunkText

SpecChunk == InitChunk /\ [][NextChunk]_vars

NonEmptyString(str) == str # ""

\* the non-empty trimmed sentences of a text, in order
TrimmedSentences(text) ==
    LET pieces == SplitSentences(text)
    IN  SelectSeq([i \in DOMAIN pieces |-> Trim(pieces[i])], NonEmptyString)

RECURSIVE FlattenSeqs(_)
FlattenSeqs(seqs) ==
    IF seqs = <<>> THEN <<>> ELSE Head(seqs) \o FlattenSeqs(Tail(seqs))

\* the sentences of each returned chunk
ChunkSentences ==
    [i \in DOMAIN chunksReturned |-> TrimmedSentences(chunksReturned[i])]

ChunkReturned == pc = "chunk_return"

\* the chunk is one sentence of the text that, with its full stop, is longer
\* than maxChars
OversizedSentence(chunk) ==
    /\ Len(chunk) > maxCharsArg
    /\ \E i \in DOMAIN TrimmedSentences(textArg) :
           chunk = TrimmedSentences(textArg)[i] \o "."

\* the text has no non-empty sentence and was returned as it is
ReturnedUnchanged ==
    /\ TrimmedSentences(textArg) = <<>>
    /\ chunksReturned = <<textArg>>

-----------------------------------------------------------------------------
(* Claims about chunkText *)

\* C23 as stated: every chunk chunkText returns is at most maxChars long,
\* except a chunk that is a single sentence which alone is longer than
\* maxChars.
C23_ChunkSizeBound ==
    ChunkReturned =>
        \A i \in DOMAIN chunksReturned :
            \/ Len(chunksReturned[i]) <= maxCharsArg
            \/ OversizedSentence(chunksReturned[i])

\* C23: every chunk chunkText returns is at most maxChars long, except a
\* chunk that is a single sentence which with its full stop is longer than
\* maxChars (kept whole), and except the text returned unchanged because it
\* holds no non-empty sentence.
C23_ChunkSizeBoundWithSentence ==
    ChunkReturned =>
        \/ ReturnedUnchanged
        \/ \A i \in DOMAIN chunksReturned :
               \/ Len(chunksReturned[i]) <= maxCharsArg
               \/ OversizedSentence(chunksReturned[i])

\* a text whose first sentence is longer than the bound and is kept whole,
\* followed by a chunk within the bound
C23_Witness ==
    /\ ChunkReturned
    /\ textArg = "abcdefgh. a"
    /\ maxCharsArg = 7
    /\ chunksReturned = <<"abcdefgh.", "a.">>


\* C24: the sentences read from the chunks chunkText returns, in order, are
\* the non-empty trimmed sentences of the text: none is dropped, duplicated,
\* split across chunks or reordered.
C24_ChunkCompleteness ==
    ChunkReturned =>
        FlattenSeqs(ChunkSentences) = TrimmedSentences(textArg)

\* two sentences parted by a run of terminators, returned in two chunks
C24_Witness ==
    /\ ChunkReturned
    /\ textArg = "ab?!cd ef"
    /\ maxCharsArg = 7
    /\ chunksReturned = <<"ab.", "cd ef.">>
    /\ FlattenSeqs(ChunkSentences) = <<"ab", "cd ef">>


RECURSIVE BufferLength(_)
\* currentChunk.length after these sentences were appended, each followed by
\* a full stop and a space
BufferLength(sentences) ==
    IF sentences = <<>> THEN 0
    ELSE Len(Head(sentences)) + 2 + BufferLength(Tail(sentences))

\* the test of line 46 on a buffer holding these sentences
DoesNotFit(sentences, next) ==
    BufferLength(sentences) + Len(next) + 2 > maxCharsArg

\* C25: chunkText closes the current chunk exactly when the buffer is not
\* empty and buffer length + next trimmed sentence length + 2 exceeds
\* maxChars, and otherwise appends the sentence: every returned chunk holds a
\* sentence, every sentence after the first of a chunk passed the test with
\* the buffer before it, the first sentence of every later chunk failed it
\* with the whole chunk before, and "A. B. C." with maxChars = 3 gives
\* "A.", "B.", "C.".
C25_ClosesWhenOverBudget ==
    (ChunkReturned /\ ~ReturnedUnchanged) =>
        /\ \A i \in DOMAIN ChunkSentences :
              /\ ChunkSentences[i] # <<>>
              /\ \A k \in 2..Len(ChunkSentences[i]) :
                     ~DoesNotFit(SubSeq(ChunkSentences[i], 1, k - 1),
                                 ChunkSentences[i][k])
        /\ \A i \in 1..(Len(ChunkSentences) - 1) :
              DoesNotFit(ChunkSentences[i], ChunkSentences[i + 1][1])
        /\ (textArg = "A. B. C." /\ maxCharsArg = 3) =>
              chunksReturned = <<"A.", "B.", "C.">>

\* "A. B. C." with maxChars = 3
C25_Witness ==
    /\ ChunkReturned
    /\ textArg = "A. B. C."
    /\ maxCharsArg = 3
    /\ chunksReturned = <<"A.", "B.", "C.">>


\* the non-empty trimmed sentences of the texts of the documents
sentencesOf == [text \in Texts |-> TrimmedSentences(text)]

\* on every text and limit of the chunkText calls above: a chunk is
\* returned, and a text without a sentence is returned as it is
ChunkTextTotal ==
    \A text \in ChunkTexts : \A limit \in 1..MaxLimit :
        LET returned == chunkText(text, limit)
        IN  /\ returned # <<>>
            /\ TrimmedSentences(text) = <<>> => returned = <<text>>

\* the same, after the call chunkText(textArg, maxCharsArg)
C26_ChunkReturnedForEveryText ==
    ChunkReturned =>
        /\ chunksReturned # <<>>
        /\ TrimmedSentences(textArg) = <<>> => chunksReturned = <<textArg>>

\* the documents that have had an extraction call
DocumentsCalled == {ExtractCalls[i][1] : i \in DOMAIN ExtractCalls}

\* C26: chunkText never returns an empty sequence; a text with no non-empty
\* sentence comes back unchanged as the only chunk; so every document of a
\* run of processDocumentsToGraph has at least one chunk and, when the loops
\* are over, has had at least one extraction call.
C26_NeverNoChunk ==
    /\ ChunkTextTotal
    /\ allChunks # <<>> =>
          \A k \in DOMAIN documentTexts :
              /\ allChunks[k] # <<>>
              /\ sentencesOf[documentTexts[k]] = <<>> =>
                    allChunks[k] = <<documentTexts[k]>>
    /\ ExtractionOver => DocumentsCalled = DOMAIN documentTexts

\* a run over an empty document and a document of two chunks, each with its
\* extraction calls
C26_Witness ==
    /\ ExtractionOver
    /\ Len(documentTexts) = 2
    /\ documentTexts[1] = ""
    /\ allChunks[1] = <<"">>
    /\ Len(allChunks[2]) = 2
    /\ ExtractCalls = <<<<1, 1>>, <<2, 1>>, <<2, 2>>>>

-----------------------------------------------------------------------------
(* consolidateGraph called on ids that hold the separator of the key *)

\* an id, and an id that reads like source|type|target
SeparatorNames == {"a", "a|R|a"}

SeparatorNodeLists ==
    {[i \in DOMAIN s |->
        [id |-> s[i], type |-> "T",
         properties |-> [description |-> "n" \o ToString(i)]]] :
     s \in SeqsUpTo(SeparatorNames, MaxNodes)}

SeparatorRelLists ==
    {[i \in DOMAIN s |->
        [source |-> s[i][1], target |-> s[i][2], type |-> "R",
         properties |-> [description |-> "r" \o ToString(i)]]] :
     s \in SeqsUpTo(SeparatorNames \X SeparatorNames, MaxRels)}

InitConsolidateSeparator ==
    /\ pc = "consolidate"
    /\ allNodes \in SeparatorNodeLists
    /\ allRelationships \in SeparatorRelLists
    /\ entityMapping \in Mappings
    /\ finalGraph = NoGraph
    /\ oracleCalls = <<>>
    /\ IdlePdg
    /\ IdleMerge
    /\ IdleStream
    /\ IdleReports

SpecConsolidateSeparator == InitConsolidateSeparator /\ [][NextConsolidate]_vars

-----------------------------------------------------------------------------
(* Claims about what consolidateGraph keeps *)

\* entityMapping.get(id) || id
Canonical(id) == GetOrSelf(entityMapping, id)

\* the first input node whose id resolves to canonicalId
FirstNodeOf(canonicalId) ==
    MinOf({i \in DOMAIN allNodes : Canonical(allNodes[i].id) = canonicalId})

\* C27: for each canonical id the output of consolidateGraph holds exactly
\* one node; its id is the canonical id, its type and properties are those of
\* the first input node whose id resolves to it, and the output nodes are in
\* the order in which their canonical ids were first seen.
C27_FirstSeenNodeKept ==
    ConsolidateReturned =>
        /\ Ids(finalGraph.nodes) =
              {Canonical(allNodes[i].id) : i \in DOMAIN allNodes}
        /\ \A j, k \in DOMAIN finalGraph.nodes :
              finalGraph.nodes[j].id = finalGraph.nodes[k].id => j = k
        /\ \A j \in DOMAIN finalGraph.nodes :
              LET first == allNodes[FirstNodeOf(finalGraph.nodes[j].id)]
              IN  /\ finalGraph.nodes[j].type = first.type
                  /\ finalGraph.nodes[j].properties = first.properties
        /\ \A j, k \in DOMAIN finalGraph.nodes :
              j < k => FirstNodeOf(finalGraph.nodes[j].id)
                         < FirstNodeOf(finalGraph.nodes[k].id)

\* two raw nodes, the first mapped to the id of the second: one node comes
\* out, with the second's id and the first's type and properties
C27_Witness ==
    /\ pc = "consolidated"
    /\ Len(allNodes) = 2
    /\ allNodes[1].id = "a"
    /\ allNodes[2].id = "b"
    /\ allNodes[1].type # allNodes[2].type
    /\ MapHas(entityMapping, "a")
    /\ entityMapping["a"] = "b"
    /\ finalGraph.nodes =
          <<[id |-> "b", type |-> allNodes[1].type,
             properties |-> allNodes[1].properties]>>


\* the triple an input relationship resolves to
TripleOf(rel) == <<Canonical(rel.source), rel.type, Canonical(rel.target)>>

\* its resolved endpoints differ and are both output nodes
Eligible(rel) ==
    /\ Canonical(rel.source) # Canonical(rel.target)
    /\ Canonical(rel.source) \in Ids(finalGraph.nodes)
    /\ Canonical(rel.target) \in Ids(finalGraph.nodes)

\* the first eligible input relationship that resolves to the triple
FirstRelOf(triple) ==
    MinOf({i \in DOMAIN allRelationships :
             Eligible(allRelationships[i]) /\ TripleOf(allRelationships[i]) = triple})

OutputTriple(j) ==
    <<finalGraph.relationships[j].source, finalGraph.relationships[j].type,
      finalGraph.relationships[j].target>>

\* C28: for every triple (canonicalSource, type, canonicalTarget) of an input
\* relationship whose resolved endpoints differ and are both output nodes,
\* the output of consolidateGraph holds exactly one relationship with that
\* triple, with the properties of the first input relationship resolving to
\* it; the output holds nothing else and is in first-seen order.
C28_FirstSeenRelationshipKept ==
    ConsolidateReturned =>
        /\ \A i \in DOMAIN allRelationships :
              Eligible(allRelationships[i]) =>
                  /\ Cardinality({j \in DOMAIN finalGraph.relationships :
                        OutputTriple(j) = TripleOf(allRelationships[i])}) = 1
                  /\ \A j \in DOMAIN finalGraph.relationships :
                        OutputTriple(j) = TripleOf(allRelationships[i]) =>
                            finalGraph.relationships[j].properties =
                              allRelationships[
                                FirstRelOf(OutputTriple(j))].properties
        /\ \A j \in DOMAIN finalGraph.relationships :
              \E i \in DOMAIN allRelationships :
                  /\ Eligible(allRelationships[i])
                  /\ TripleOf(allRelationships[i]) = OutputTriple(j)
        /\ \A j, k \in DOMAIN finalGraph.relationships :
              j < k => FirstRelOf(OutputTriple(j)) < FirstRelOf(OutputTriple(k))

-----------------------------------------------------------------------------
(* Claims about the calls of mergeEntitiesWithLLM *)

\* the types of the nodes handed to mergeEntitiesWithLLM
GroupTypes == {nonDocumentNodes[i].type : i \in DOMAIN nonDocumentNodes}

\* the merge calls made for the group of type t
CallsForGroup(t) == {i \in DOMAIN MergeCalls : MergeCalls[i].type = t}

\* one call for each group of two or more distinct names, none for any other
\* group, and each call sends the distinct names of its group, each once
OneCallPerGroup ==
    /\ \A t \in GroupTypes :
          Cardinality(CallsForGroup(t)) =
              IF Cardinality(NamesOfType(nonDocumentNodes, t)) >= 2
              THEN 1 ELSE 0
    /\ \A i \in DOMAIN MergeCalls :
          /\ MergeCalls[i].type \in GroupTypes
          /\ {MergeCalls[i].names[k] : k \in DOMAIN MergeCalls[i].names}
                = NamesOfType(nonDocumentNodes, MergeCalls[i].type)
          /\ \A k, l \in DOMAIN MergeCalls[i].names :
                MergeCalls[i].names[k] = MergeCalls[i].names[l] => k = l

\* the same for mergeEntitiesWithLLM called on its own
C29_OneCallPerGroupOnAnyNodes == pc = "merge_return" => OneCallPerGroup

\* C29 as stated: mergeEntitiesWithLLM makes one call for each type group of
\* two or more distinct names and none for any other group, each call sends
\* the distinct names of its group once, and no name of a document node the
\* run has built is ever sent.
C29_OneCallPerGroupNoDocumentName ==
    /\ pc = "merge_return" => OneCallPerGroup
    /\ \A i \in DOMAIN MergeCalls : \A k \in DOMAIN MergeCalls[i].names :
          MergeCalls[i].names[k] \notin Ids(documentNodes)

\* C29: mergeEntitiesWithLLM makes one call for each type group of two or
\* more distinct names and none for any other group, whether or not calls
\* fail; each call sends the distinct names of its group once; no node of
\* type DOCUMENT is in any group, so the name of a document is sent only
\* when an extracted node of another type has that name.
C29_OneCallPerGroupNoDocumentNode ==
    /\ pc = "merge_return" => OneCallPerGroup
    /\ pc \in {"merge_entry", "merge_loop", "merge_await", "merge_delay",
               "merge_return"} =>
          /\ nonDocumentNodes = FilterNotDocument(allNodes)
          /\ "DOCUMENT" \notin GroupTypes
    /\ \A i \in DOMAIN MergeCalls : \A k \in DOMAIN MergeCalls[i].names :
          \E n \in DOMAIN allNodes :
              /\ allNodes[n].id = MergeCalls[i].names[k]
              /\ allNodes[n].type = MergeCalls[i].type
              /\ allNodes[n].type # "DOCUMENT"

\* a run with a document and two entities of one type, whose only merge call
\* failed, and mergeEntitiesWithLLM has returned
C29_Witness ==
    /\ pc = "merge_return"
    /\ documentNodes # <<>>
    /\ Len(MergeCalls) = 1
    /\ Len(MergeCalls[1].names) = 2
    /\ MergeCalls[1].answer.kind = "throws"

-----------------------------------------------------------------------------
(* Claims about the provenance relationships *)

IsContains(rel) == rel.type = "CONTAINS"

\* a CONTAINS relationship of the list goes from a DOCUMENT node of the
\* nodes to the node with this id
ContainedIn(id, nodes, rels) ==
    \E r \in DOMAIN rels : \E d \in DOMAIN nodes :
        /\ IsContains(rels[r])
        /\ rels[r].target = id
        /\ rels[r].source = nodes[d].id
        /\ nodes[d].type = "DOCUMENT"

\* C30: every node a chunk extraction returned has its CONTAINS relationship
\* from a document node in the accumulated relationships, one per extracted
\* node, and in every graph processDocumentsToGraph returns each node whose
\* type is not DOCUMENT is the target of a CONTAINS relationship whose source
\* is a DOCUMENT node of the graph.
C30_ProvenanceKept ==
    /\ pc \notin {"pdg_entry", "consolidate", "consolidated", "reconsolidated"}
         /\ documentNodes # <<>> =>
          /\ \A i \in (Len(documentNodes) + 1)..Len(allNodes) :
                ContainedIn(allNodes[i].id, documentNodes, allRelationships)
          /\ Len(SelectSeq(allRelationships, IsContains))
                = Len(allNodes) - Len(documentNodes)
    /\ pc = "pdg_return" =>
          \A i \in DOMAIN finalGraph.nodes :
              finalGraph.nodes[i].type # "DOCUMENT" =>
                  ContainedIn(finalGraph.nodes[i].id, finalGraph.nodes,
                              finalGraph.relationships)
=============================================================================
